---- MODULE Spec2Model ----
(***************************************************************************)
(* Rating / score aggregation and leaderboard subsystem of teamflask.      *)
(*                                                                         *)
(*  - file-backed rating store      hacks/performances.py                  *)
(*  - submit endpoint               hacks/performance.py                   *)
(*  - game scores and leaderboard   api/media_api.py                       *)
(*  - multi-question ratings        model/performance.py                   *)
(*                                                                         *)
(* Numbers with one decimal place (averages) are carried in tenths:        *)
(* 3.0 is 30, 4.5 is 45.                                                   *)
(***************************************************************************)
EXTENDS Integers, Sequences, FiniteSets, TLC

----------------------------------------------------------------------------
(* Bounds of the model *)

NumWorkers == 2
MaxSubmits == 3
MaxScores == 3
MaxMulti == 2
MaxPerfRows == 2
MaxAdminScores == 2
MaxClicks == 2
MaxLive == 2

Workers == 1..NumWorkers
Users == {1}

----------------------------------------------------------------------------
(* JSON values as Python sees them after request.get_json().               *)
(* t is the Python type, n the numeric payload (tenths for a float),       *)
(* s the characters of a string.                                           *)

JNull == [t |-> "null", n |-> 0, s |-> <<>>]
JInt(k) == [t |-> "int", n |-> k, s |-> <<>>]
JFloat(tenths) == [t |-> "float", n |-> tenths, s |-> <<>>]
JBool(b) == [t |-> "bool", n |-> IF b THEN 1 ELSE 0, s |-> <<>>]
JStr(chars) == [t |-> "str", n |-> 0, s |-> chars]
JList(len) == [t |-> "list", n |-> len, s |-> <<>>]
JInf == [t |-> "inf", n |-> 0, s |-> <<>>]

Digits == {"0", "1", "2", "3", "4", "5", "6", "7", "8", "9"}

DigitVal(c) ==
    CASE c = "0" -> 0 [] c = "1" -> 1 [] c = "2" -> 2 [] c = "3" -> 3
      [] c = "4" -> 4 [] c = "5" -> 5 [] c = "6" -> 6 [] c = "7" -> 7
      [] c = "8" -> 8 [] c = "9" -> 9

RECURSIVE DigitsValue(_)
DigitsValue(cs) ==
    IF cs = <<>> THEN 0
    ELSE 10 * DigitsValue(SubSeq(cs, 1, Len(cs) - 1)) + DigitVal(cs[Len(cs)])

RECURSIVE Strip(_)
Strip(cs) ==
    IF cs = <<>> THEN cs
    ELSE IF cs[1] = " " THEN Strip(Tail(cs))
    ELSE IF cs[Len(cs)] = " " THEN Strip(SubSeq(cs, 1, Len(cs) - 1))
    ELSE cs

PyOk(v) == [ok |-> TRUE, v |-> v, err |-> "none"]
PyErr(e) == [ok |-> FALSE, v |-> 0, err |-> e]

(* int(str): surrounding blanks stripped, optional sign, then digits only *)
StrToInt(chars) ==
    LET cs == Strip(chars)
        signed == cs # <<>> /\ cs[1] \in {"-", "+"}
        body == IF signed THEN Tail(cs) ELSE cs
    IN  IF body = <<>> \/ \E i \in 1..Len(body) : body[i] \notin Digits
        THEN PyErr("ValueError")
        ELSE PyOk(IF signed /\ cs[1] = "-" THEN 0 - DigitsValue(body)
                  ELSE DigitsValue(body))

(* int(float) truncates toward zero *)
TruncTenths(tenths) ==
    IF tenths >= 0 THEN tenths \div 10 ELSE 0 - ((0 - tenths) \div 10)

(* Python's int(x) *)
PyInt(x) ==
    CASE x.t = "int" -> PyOk(x.n)
      [] x.t = "bool" -> PyOk(x.n)
      [] x.t = "float" -> PyOk(TruncTenths(x.n))
      [] x.t = "str" -> StrToInt(x.s)
      [] x.t = "inf" -> PyErr("OverflowError")
      [] OTHER -> PyErr("TypeError")

(* Python truthiness: bool(x) *)
PyTruthy(x) ==
    CASE x.t = "null" -> FALSE
      [] x.t \in {"int", "bool", "float", "list"} -> x.n # 0
      [] x.t = "str" -> x.s # <<>>
      [] OTHER -> TRUE

----------------------------------------------------------------------------
(* State *)

VARIABLES
    perfFile,     \* performances.json: [kind, data]
    lockEx,       \* worker holding flock LOCK_EX on performances.json, 0 if none
    lockSh,       \* workers holding flock LOCK_SH on performances.json
    pc,           \* position of each worker inside its current call
    call,         \* the operation each worker is executing
    req,          \* request body of the submit a worker is handling
    rating,       \* validated rating of the submit a worker is handling
    user,         \* g.current_user.id of the submit a worker is handling
    perfs,        \* addPerformance's local list `performances`
    newPerf,      \* addPerformance's local `new_performance`
    rdData,       \* `data` loaded by _read_performances_file
    last,         \* the most recently completed call and its result
    returned,     \* values returned by addPerformance so far, in order
    clock,        \* datetime.utcnow(), as a logical clock
    nSubmits,     \* number of accepted submits so far
    scores,       \* table media_scores, in insertion order
    nextScoreId,  \* autoincrement of media_scores.id
    scoreResp,    \* last response of the media score / leaderboard endpoints
    multiratings, \* table multirating_responses, in insertion order
    multiResp,    \* outcome of the last MultiRating construction
    perfTable,    \* table performances (model Performance), in insertion order
    nextPerfId,   \* autoincrement of performances.id
    adminResp,    \* last response of the admin endpoints for a rating
    argId,        \* id argument of the getPerformance a worker is handling
    stats,        \* the statistics response a worker is assembling
    raced,        \* a write reached the store since the worker began its statistics request
    lastRaced,    \* value of raced for the most recently completed statistics request
    lastGet,      \* the last getPerformance completed since the last write to the store
    prevGet,      \* the getPerformance completed before lastGet, since the last write
    readFrom,     \* number of addPerformance calls returned when a worker's read began
    lastReadFrom, \* value of readFrom for the most recently completed call
    promptsFile,  \* prompts.json: [kind, data, indent]
    pLockEx,      \* worker holding flock LOCK_EX on prompts.json, 0 if none
    pLockSh,      \* workers holding flock LOCK_SH on prompts.json
    ppc,          \* position of each worker inside its call on the prompt store
    pcall,        \* the prompt operation each worker is executing and its id
    prompts,      \* increment_prompt_click's local list `prompts`
    pData,        \* `data` loaded by _read_prompts_file
    plast,        \* the most recently answered prompt request
    persons,      \* table media_persons, in insertion order
    nextPersonId, \* autoincrement of media_persons.id
    personPc,     \* position of each worker inside MediaPersonAPI.post and its name
    personResp,   \* each worker's last response of MediaPersonAPI.post
    nReads,       \* number of stand-alone reads started where reads are bounded
    biasResp,     \* last response of analyze_bias and the rows it read
    clicked,      \* per prompt id, the increments written by increment_prompt_click
    promptNow,    \* datetime.now(), as a logical clock
    nClicks,      \* number of click requests so far
    promptClicks, \* table prompt_clicks, in insertion order
    nextClickId,  \* autoincrement of prompt_clicks.id
    loadedClick,  \* the PromptClick object each worker's session holds
    dbClicked     \* per prompt_id, the calls of PromptClick.increment so far

ratingVars ==
    <<perfFile, lockEx, lockSh, pc, call, req, rating, user, perfs, newPerf,
      rdData, last, returned, clock, nSubmits>>
mediaVars == <<scores, nextScoreId, scoreResp>>
multiVars == <<multiratings, multiResp>>
adminVars == <<perfTable, nextPerfId, adminResp>>
readVars == <<argId, stats, raced, lastRaced, lastGet, prevGet, readFrom, lastReadFrom>>
promptFileVars ==
    <<promptsFile, pLockEx, pLockSh, ppc, pcall, prompts, pData, plast, clicked,
      promptNow, nClicks>>
promptDbVars == <<promptClicks, nextClickId, loadedClick, dbClicked>>
promptVars == <<promptFileVars, promptDbVars>>
biasVars == <<biasResp>>
liveVars == <<nReads>>
personVars == <<persons, nextPersonId, personPc, personResp>>
vars == <<ratingVars, readVars, mediaVars, multiVars, adminVars, promptVars, biasVars, personVars, liveVars>>

nonRatingVars == <<mediaVars, multiVars, adminVars, promptVars, biasVars, personVars, liveVars>>
nonMediaVars == <<ratingVars, readVars, multiVars, adminVars, promptVars, biasVars, personVars, liveVars>>
nonMultiVars == <<ratingVars, readVars, mediaVars, adminVars, promptVars, biasVars, personVars, liveVars>>
nonAdminVars == <<ratingVars, mediaVars, multiVars, promptVars, biasVars, personVars, liveVars>>
nonPromptVars == <<ratingVars, readVars, mediaVars, multiVars, adminVars, biasVars, personVars, liveVars>>
nonBiasVars == <<ratingVars, readVars, mediaVars, multiVars, adminVars, promptVars, personVars, liveVars>>
nonPersonVars ==
    <<ratingVars, readVars, mediaVars, multiVars, adminVars, promptVars, biasVars, liveVars>>

----------------------------------------------------------------------------
(* File-backed rating store: hacks/performances.py *)

NoPerf == [id |-> -1, rating |-> 0, user_id |-> 0, username |-> "", timestamp |-> 0]
NoBody == [kind |-> "none", rating |-> JNull]
NoCall ==
    [call |-> "none", w |-> 0, req |-> NoBody, code |-> 0, added |-> FALSE,
     val |-> 0, data |-> <<>>]

AbsentFile == [kind |-> "absent", data |-> <<>>]
EmptyFile == [kind |-> "empty", data |-> <<>>]
JsonFile(d) == [kind |-> "json", data |-> d]
CorruptFile == [kind |-> "corrupt", data |-> <<>>]

(* os.path.exists(PERFORMANCES_FILE) *)
Exists(f) == f.kind # "absent"

(* json.load / json.loads of the file's text; every failure is swallowed   *)
(* into [] by the callers (an empty or partly overwritten file fails).     *)
ParseFile(f) == IF f.kind = "json" THEN f.data ELSE <<>>

(* open(path, 'w'): creates the file or truncates it to zero length *)
OpenW(f) == EmptyFile

(* close() of the 'w' handle flushes the buffered text of json.dump(data)  *)
(* at offset 0 without truncating: over an empty file or over the same     *)
(* text it leaves that text, over a longer document it leaves the new text *)
(* followed by the old tail, which no longer parses.                       *)
FlushAtZero(f, d) ==
    IF f.kind = "empty" \/ (f.kind = "json" /\ f.data = d) THEN JsonFile(d)
    ELSE CorruptFile

LockFree == lockEx = 0 /\ lockSh = {}

RECURSIVE SumRatings(_)
SumRatings(ps) == IF ps = <<>> THEN 0 ELSE ps[1].rating + SumRatings(Tail(ps))

(* round(total / n, 1) in tenths. Python rounds the double to the nearest  *)
(* tenth, ties to even. A tie needs 10*total/n = k + 1/2; for n < 20 such  *)
(* a mean is a multiple of 1/4 and exactly representable.                  *)
PyRound1_floor(total, n) == (10 * total) \div n

PyRound1(total, n) ==
    LET q == (10 * total) \div n
        r == (10 * total) % n
    IN  IF 2 * r < n THEN q
        ELSE IF 2 * r > n THEN q + 1
        ELSE IF q % 2 = 0 THEN q ELSE q + 1

countPerformances_plus(performances) == Len(performances) + 1

countPerformances(performances) == Len(performances)

getAverageRating_zero(performances) ==
    IF performances = <<>> THEN 0
    ELSE PyRound1(SumRatings(performances), Len(performances))

getAverageRating(performances) ==
    IF performances = <<>> THEN 30
    ELSE PyRound1(SumRatings(performances), Len(performances))

RatingKeys == <<1, 2, 3, 4, 5>>

getRatingDistribution(performances) ==
    [k \in {RatingKeys[i] : i \in 1..Len(RatingKeys)} |->
        Cardinality({i \in 1..Len(performances) : performances[i].rating = k})]

RECURSIVE SumDist(_, _)
SumDist(dist, keys) ==
    IF keys = <<>> THEN 0 ELSE dist[keys[1]] + SumDist(dist, Tail(keys))

(* max(distribution, key=distribution.get): first key, in the dict's       *)
(* insertion order, whose value is not exceeded by an earlier one          *)
RECURSIVE MaxKey_last(_, _, _)
MaxKey_last(dist, keys, best) ==
    IF keys = <<>> THEN best
    ELSE MaxKey_last(dist, Tail(keys), IF dist[keys[1]] >= dist[best] THEN keys[1] ELSE best)

RECURSIVE MaxKey(_, _, _)
MaxKey(dist, keys, best) ==
    IF keys = <<>> THEN best
    ELSE MaxKey(dist, Tail(keys), IF dist[keys[1]] > dist[best] THEN keys[1] ELSE best)

getMostCommonRating(performances) ==
    LET distribution == getRatingDistribution(performances)
    IN  IF SumDist(distribution, RatingKeys) = 0 THEN 3
        ELSE MaxKey(distribution, Tail(RatingKeys), RatingKeys[1])

(* getUserPerformances, lines 127-130 *)
getUserPerformances(performances, user_id) ==
    SelectSeq(performances, LAMBDA p : p.user_id = user_id)

Readers ==
    {"getPerformances", "countPerformances", "getAverageRating",
     "getRatingDistribution", "getMostCommonRating"}

(* value a reader returns for the list it loaded *)
ReaderValue(fn, data) ==
    CASE fn = "countPerformances" -> countPerformances(data)
      [] fn = "getAverageRating" -> getAverageRating(data)
      [] fn = "getRatingDistribution" -> getRatingDistribution(data)
      [] fn = "getMostCommonRating" -> getMostCommonRating(data)
      [] OTHER -> data

----------------------------------------------------------------------------
(* Submit endpoint: hacks/performance.py, PerformanceAPI._Submit.post *)

AllowedRatings_wide == {1, 2, 3, 4, 5, 6}

AllowedRatings == {1, 2, 3, 4, 5}

(* the checks of lines 38-56: the status code and the converted rating *)
ValidateSubmit(data) ==
    IF data.kind = "none" THEN [code |-> 400, rating |-> 0]
    ELSE IF data.kind = "list" THEN [code |-> 500, rating |-> 0]
    ELSE IF data.rating.t = "null" THEN [code |-> 400, rating |-> 0]
    ELSE LET c == PyInt(data.rating)
         IN  IF ~c.ok
             THEN [code |-> IF c.err \in {"ValueError", "TypeError"} THEN 400 ELSE 500,
                   rating |-> 0]
             ELSE IF c.v \notin AllowedRatings THEN [code |-> 400, rating |-> 0]
             ELSE [code |-> 200, rating |-> c.v]

SubmitStatus_strict(r, avg_rating) ==
    IF 10 * r < avg_rating THEN "underprepared"
    ELSE IF 10 * r >= avg_rating THEN "overprepared"
    ELSE "average"

(* lines 68-76 *)
SubmitStatus(r, avg_rating) ==
    IF 10 * r < avg_rating THEN "underprepared"
    ELSE IF 10 * r > avg_rating THEN "overprepared"
    ELSE "average"

SubmitResult(w, data) ==
    [call |-> "submit", w |-> w, req |-> req[w], code |-> 200, added |-> TRUE,
     val |-> [your_rating |-> rating[w],
              average_rating |-> getAverageRating(data),
              status |-> SubmitStatus(rating[w], getAverageRating(data)),
              performance_id |-> newPerf[w].id],
     data |-> data]

(* the value of getUserPerformances is kept with the user_id it was called for *)
ReaderResult(w, data) ==
    [call |-> call[w], w |-> w, req |-> NoBody, code |-> 200, added |-> FALSE,
     val |-> IF call[w] = "getUserPerformances"
             THEN [user_id |-> user[w],
                   performances |-> getUserPerformances(data, user[w])]
             ELSE ReaderValue(call[w], data),
     data |-> data]

(* getPerformance, lines 47-52, for the list it loaded; None is NoPerf *)
getPerformance(performances, id) ==
    IF id < Len(performances) THEN performances[id + 1] ELSE NoPerf

(* _ReadID.get, lines 113-118: the record, or 404 when there is none *)
GetResult(w, data) ==
    [call |-> "getPerformance", w |-> w, req |-> NoBody,
     code |-> IF getPerformance(data, argId[w]) # NoPerf THEN 200 ELSE 404,
     added |-> FALSE, val |-> getPerformance(data, argId[w]), data |-> data]

NoId == -1
NoGet == [valid |-> FALSE, id |-> NoId, code |-> 0, val |-> NoPerf]
NoStats ==
    [n |-> 0, count |-> 0, average |-> 0, distribution |-> [k \in 1..5 |-> 0],
     most_common |-> 0]

(* _ReadStats.get, lines 188-193: the dict is built from four calls, each  *)
(* of which reads the file again; st.n parts are in place and `data` is    *)
(* the list the next call has loaded                                       *)
StatsPart(st, data) ==
    CASE st.n = 0 -> [st EXCEPT !.n = 1, !.count = countPerformances(data)]
      [] st.n = 1 -> [st EXCEPT !.n = 2, !.average = getAverageRating(data)]
      [] st.n = 2 -> [st EXCEPT !.n = 3, !.distribution = getRatingDistribution(data)]
      [] OTHER -> [st EXCEPT !.n = 4, !.most_common = getMostCommonRating(data)]

StatsResult(w, st) ==
    [call |-> "stats", w |-> w, req |-> NoBody, code |-> 200, added |-> FALSE,
     val |-> [count |-> st.count, average |-> st.average,
              distribution |-> st.distribution, most_common |-> st.most_common],
     data |-> <<>>]

(* a step that changes the content of performances.json: the results of   *)
(* earlier getPerformance calls are no longer comparable, and every        *)
(* statistics request in progress has been overtaken by a write            *)
NoteWrite ==
    /\ lastGet' = NoGet
    /\ prevGet' = NoGet
    /\ raced' = [v \in Workers |-> raced[v] \/ call[v] = "stats"]
    /\ UNCHANGED <<argId, stats, lastRaced, readFrom, lastReadFrom>>

(* the worker returns to the caller with the list `data` in hand; inside   *)
(* a statistics request the next of the four reads begins                  *)
Return(w, data) ==
    IF call[w] = "stats" /\ stats[w].n < 3
    THEN /\ stats' = [stats EXCEPT ![w] = StatsPart(stats[w], data)]
         /\ pc' = [pc EXCEPT ![w] = "rd_open"]
         /\ rdData' = [rdData EXCEPT ![w] = <<>>]
         /\ UNCHANGED <<last, call, req, rating, user, newPerf>>
         /\ UNCHANGED <<argId, raced, lastRaced, lastGet, prevGet, readFrom, lastReadFrom>>
    ELSE /\ last' = CASE call[w] = "submit" -> SubmitResult(w, data)
                      [] call[w] = "getPerformance" -> GetResult(w, data)
                      [] call[w] = "stats" -> StatsResult(w, StatsPart(stats[w], data))
                      [] OTHER -> ReaderResult(w, data)
         /\ pc' = [pc EXCEPT ![w] = "idle"]
         /\ call' = [call EXCEPT ![w] = "none"]
         /\ req' = [req EXCEPT ![w] = NoBody]
         /\ rating' = [rating EXCEPT ![w] = 0]
         /\ user' = [user EXCEPT ![w] = 0]
         /\ newPerf' = [newPerf EXCEPT ![w] = NoPerf]
         /\ rdData' = [rdData EXCEPT ![w] = <<>>]
         /\ argId' = [argId EXCEPT ![w] = NoId]
         /\ stats' = [stats EXCEPT ![w] = NoStats]
         /\ raced' = [raced EXCEPT ![w] = FALSE]
         /\ lastRaced' = IF call[w] = "stats" THEN raced[w] ELSE lastRaced
         /\ readFrom' = [readFrom EXCEPT ![w] = 0]
         /\ lastReadFrom' = readFrom[w]
         /\ IF call[w] = "getPerformance"
            THEN /\ prevGet' = lastGet
                 /\ lastGet' = [valid |-> TRUE, id |-> argId[w],
                                code |-> GetResult(w, data).code,
                                val |-> GetResult(w, data).val]
            ELSE UNCHANGED <<lastGet, prevGet>>

RatingInputs ==
    {JNull, JInf, JList(1), JBool(TRUE), JBool(FALSE)}
    \cup {JInt(k) : k \in -1..6}
    \cup {JFloat(5), JFloat(37), JFloat(55), JFloat(60)}
    \cup {JStr(<<"3">>), JStr(<<" ", "4", " ">>), JStr(<<"6">>), JStr(<<"-", "2">>),
          JStr(<<"a", "b", "c">>), JStr(<<"5", ".", "0">>), JStr(<<>>)}

SubmitBodies ==
    {NoBody, [kind |-> "list", rating |-> JNull]}
    \cup {[kind |-> "dict", rating |-> r] : r \in RatingInputs}

(* _Submit.post up to the call of addPerformance; a rejected request ends here *)
Submit_post(w, data, u) ==
    /\ pc[w] = "idle"
    /\ LET v == ValidateSubmit(data)
       IN  IF v.code = 200
           THEN /\ nSubmits < MaxSubmits
                /\ nSubmits' = nSubmits + 1
                /\ pc' = [pc EXCEPT ![w] = "add_exists"]
                /\ call' = [call EXCEPT ![w] = "submit"]
                /\ req' = [req EXCEPT ![w] = data]
                /\ rating' = [rating EXCEPT ![w] = v.rating]
                /\ user' = [user EXCEPT ![w] = u]
                /\ UNCHANGED last
           ELSE /\ last' = [call |-> "submit", w |-> w, req |-> data, code |-> v.code,
                            added |-> FALSE, val |-> 0, data |-> <<>>]
                /\ UNCHANGED <<nSubmits, pc, call, req, rating, user>>
    /\ UNCHANGED <<perfFile, lockEx, lockSh, perfs, newPerf, rdData, returned, clock>>
    /\ UNCHANGED readVars
    /\ UNCHANGED nonRatingVars

(* initPerformances, lines 34-41 *)
initPerformances(w) ==
    /\ pc[w] = "idle"
    /\ ~Exists(perfFile)
    /\ pc' = [pc EXCEPT ![w] = "wf_open"]
    /\ call' = [call EXCEPT ![w] = "initPerformances"]
    /\ UNCHANGED <<perfFile, lockEx, lockSh, req, rating, user, perfs, newPerf,
                   rdData, last, returned, clock, nSubmits>>
    /\ UNCHANGED readVars
    /\ UNCHANGED nonRatingVars

(* addPerformance, lines 70-74: the existence test *)
add_exists(w) ==
    /\ pc[w] = "add_exists"
    /\ pc' = [pc EXCEPT ![w] = IF Exists(perfFile) THEN "add_lock" ELSE "wf_open"]
    /\ UNCHANGED <<perfFile, lockEx, lockSh, call, req, rating, user, perfs, newPerf,
                   rdData, last, returned, clock, nSubmits>>
    /\ UNCHANGED readVars
    /\ UNCHANGED nonRatingVars

(* _write_performances_file([]), line 29: open(PERFORMANCES_FILE, 'w') *)
wf_open(w) ==
    /\ pc[w] = "wf_open"
    /\ perfFile' = OpenW(perfFile)
    /\ pc' = [pc EXCEPT ![w] = "wf_lock"]
    /\ UNCHANGED <<lockEx, lockSh, call, req, rating, user, perfs, newPerf,
                   rdData, last, returned, clock, nSubmits>>
    /\ NoteWrite
    /\ UNCHANGED nonRatingVars

(* lines 30-31: flock(LOCK_EX), then json.dump into the handle's buffer *)
wf_lock(w) ==
    /\ pc[w] = "wf_lock"
    /\ LockFree
    /\ lockEx' = w
    /\ pc' = [pc EXCEPT ![w] = "wf_unlock"]
    /\ UNCHANGED <<perfFile, lockSh, call, req, rating, user, perfs, newPerf,
                   rdData, last, returned, clock, nSubmits>>
    /\ UNCHANGED readVars
    /\ UNCHANGED nonRatingVars

(* line 32: flock(LOCK_UN) *)
wf_unlock(w) ==
    /\ pc[w] = "wf_unlock"
    /\ lockEx' = 0
    /\ pc' = [pc EXCEPT ![w] = "wf_close"]
    /\ UNCHANGED <<perfFile, lockSh, call, req, rating, user, perfs, newPerf,
                   rdData, last, returned, clock, nSubmits>>
    /\ UNCHANGED readVars
    /\ UNCHANGED nonRatingVars

(* end of the with block: close() flushes the buffered "[]" to the file *)
wf_close(w) ==
    /\ pc[w] = "wf_close"
    /\ perfFile' = FlushAtZero(perfFile, <<>>)
    /\ IF call[w] = "submit"
       THEN /\ pc' = [pc EXCEPT ![w] = "add_lock"]
            /\ UNCHANGED call
       ELSE /\ pc' = [pc EXCEPT ![w] = "idle"]
            /\ call' = [call EXCEPT ![w] = "none"]
    /\ UNCHANGED <<lockEx, lockSh, req, rating, user, perfs, newPerf,
                   rdData, last, returned, clock, nSubmits>>
    /\ NoteWrite
    /\ UNCHANGED nonRatingVars

(* addPerformance, lines 76-77: open(PERFORMANCES_FILE, 'r+'), flock(LOCK_EX) *)
add_lock(w) ==
    /\ pc[w] = "add_lock"
    /\ LockFree
    /\ lockEx' = w
    /\ pc' = [pc EXCEPT ![w] = "add_read"]
    /\ UNCHANGED <<perfFile, lockSh, call, req, rating, user, perfs, newPerf,
                   rdData, last, returned, clock, nSubmits>>
    /\ UNCHANGED readVars
    /\ UNCHANGED nonRatingVars

NewId(performances) == Len(performances)

(* lines 78-97: read the document, build and append the new entry *)
add_read(w) ==
    /\ pc[w] = "add_read"
    /\ LET performances == ParseFile(perfFile)
           new_performance == [id |-> NewId(performances), rating |-> rating[w],
                               user_id |-> user[w], username |-> "Guest",
                               timestamp |-> clock]
       IN  /\ newPerf' = [newPerf EXCEPT ![w] = new_performance]
           /\ perfs' = [perfs EXCEPT ![w] = Append(performances, new_performance)]
    /\ clock' = clock + 1
    /\ pc' = [pc EXCEPT ![w] = "add_write"]
    /\ UNCHANGED <<perfFile, lockEx, lockSh, call, req, rating, user,
                   rdData, last, returned, nSubmits>>
    /\ UNCHANGED readVars
    /\ UNCHANGED nonRatingVars

(* lines 100-102: seek(0), json.dump, truncate (which flushes) *)
add_write(w) ==
    /\ pc[w] = "add_write"
    /\ perfFile' = JsonFile(perfs[w])
    /\ perfs' = [perfs EXCEPT ![w] = <<>>]
    /\ pc' = [pc EXCEPT ![w] = "add_unlock"]
    /\ UNCHANGED <<lockEx, lockSh, call, req, rating, user, newPerf,
                   rdData, last, returned, clock, nSubmits>>
    /\ NoteWrite
    /\ UNCHANGED nonRatingVars

(* lines 103-105: flock(LOCK_UN), return new_performance; the submit       *)
(* handler goes on to getAverageRating()                                   *)
add_unlock(w) ==
    /\ pc[w] = "add_unlock"
    /\ lockEx' = 0
    /\ returned' = Append(returned, newPerf[w])
    /\ pc' = [pc EXCEPT ![w] = "rd_open"]
    /\ UNCHANGED <<perfFile, lockSh, call, req, rating, user, perfs, newPerf,
                   rdData, last, clock, nSubmits>>
    /\ UNCHANGED readVars
    /\ UNCHANGED nonRatingVars

(* a reader of the store is called: getPerformances, countPerformances,    *)
(* getAverageRating, getRatingDistribution or getMostCommonRating          *)
Reader_call(w, fn) ==
    /\ pc[w] = "idle"
    /\ pc' = [pc EXCEPT ![w] = "rd_open"]
    /\ call' = [call EXCEPT ![w] = fn]
    /\ readFrom' = [readFrom EXCEPT ![w] = Len(returned)]
    /\ UNCHANGED <<perfFile, lockEx, lockSh, req, rating, user, perfs, newPerf,
                   rdData, last, returned, clock, nSubmits>>
    /\ UNCHANGED <<argId, stats, raced, lastRaced, lastGet, prevGet, lastReadFrom>>

Reader(w, fn) == Reader_call(w, fn) /\ UNCHANGED nonRatingVars

(* GET /api/performance/user/<int:user_id>: _ReadUserPerformances.get      *)
(* calls getUserPerformances(user_id)                                      *)
ReadUserPerformances_get(w, user_id) ==
    /\ pc[w] = "idle"
    /\ pc' = [pc EXCEPT ![w] = "rd_open"]
    /\ call' = [call EXCEPT ![w] = "getUserPerformances"]
    /\ user' = [user EXCEPT ![w] = user_id]
    /\ UNCHANGED <<perfFile, lockEx, lockSh, req, rating, perfs, newPerf,
                   rdData, last, returned, clock, nSubmits>>
    /\ UNCHANGED readVars
    /\ UNCHANGED nonRatingVars

(* GET /api/performance/<int:id>: _ReadID.get calls getPerformance(id) *)
ReadID_get(w, id) ==
    /\ pc[w] = "idle"
    /\ pc' = [pc EXCEPT ![w] = "rd_open"]
    /\ call' = [call EXCEPT ![w] = "getPerformance"]
    /\ argId' = [argId EXCEPT ![w] = id]
    /\ UNCHANGED <<perfFile, lockEx, lockSh, req, rating, user, perfs, newPerf,
                   rdData, last, returned, clock, nSubmits>>
    /\ UNCHANGED <<stats, raced, lastRaced, lastGet, prevGet, readFrom, lastReadFrom>>
    /\ UNCHANGED nonRatingVars

(* GET /api/performance/stats: _ReadStats.get begins with countPerformances() *)
ReadStats_get(w) ==
    /\ pc[w] = "idle"
    /\ pc' = [pc EXCEPT ![w] = "rd_open"]
    /\ call' = [call EXCEPT ![w] = "stats"]
    /\ UNCHANGED <<perfFile, lockEx, lockSh, req, rating, user, perfs, newPerf,
                   rdData, last, returned, clock, nSubmits>>
    /\ UNCHANGED readVars
    /\ UNCHANGED nonRatingVars

(* _read_performances_file, lines 14-17: a missing file reads as [] *)
rd_open(w) ==
    /\ pc[w] = "rd_open"
    /\ IF Exists(perfFile)
       THEN /\ pc' = [pc EXCEPT ![w] = "rd_lock"]
            /\ UNCHANGED <<call, req, rating, user, newPerf, rdData, last>>
            /\ UNCHANGED readVars
       ELSE Return(w, <<>>)
    /\ UNCHANGED <<perfFile, lockEx, lockSh, perfs, returned, clock, nSubmits>>
    /\ UNCHANGED nonRatingVars

(* line 18: flock(LOCK_SH) *)
rd_lock(w) ==
    /\ pc[w] = "rd_lock"
    /\ lockEx = 0
    /\ lockSh' = lockSh \cup {w}
    /\ pc' = [pc EXCEPT ![w] = "rd_load"]
    /\ UNCHANGED <<perfFile, lockEx, call, req, rating, user, perfs, newPerf,
                   rdData, last, returned, clock, nSubmits>>
    /\ UNCHANGED readVars
    /\ UNCHANGED nonRatingVars

rd_load_logging(w) ==
    /\ pc[w] = "rd_load"
    /\ rdData' = [rdData EXCEPT ![w] = ParseFile(perfFile)]
    /\ perfFile' = JsonFile(Append(ParseFile(perfFile),
                                   [NoPerf EXCEPT !.id = Len(ParseFile(perfFile))]))
    /\ pc' = [pc EXCEPT ![w] = "rd_unlock"]
    /\ UNCHANGED <<lockEx, lockSh, call, req, rating, user, perfs, newPerf,
                   last, returned, clock, nSubmits>>
    /\ UNCHANGED readVars
    /\ UNCHANGED nonRatingVars

(* lines 19-22: json.load *)
rd_load(w) ==
    /\ pc[w] = "rd_load"
    /\ rdData' = [rdData EXCEPT ![w] = ParseFile(perfFile)]
    /\ pc' = [pc EXCEPT ![w] = "rd_unlock"]
    /\ UNCHANGED <<perfFile, lockEx, lockSh, call, req, rating, user, perfs, newPerf,
                   last, returned, clock, nSubmits>>
    /\ UNCHANGED readVars
    /\ UNCHANGED nonRatingVars

(* lines 23-24: flock(LOCK_UN), return data *)
rd_unlock(w) ==
    /\ pc[w] = "rd_unlock"
    /\ lockSh' = lockSh \ {w}
    /\ Return(w, rdData[w])
    /\ UNCHANGED <<perfFile, lockEx, perfs, returned, clock, nSubmits>>
    /\ UNCHANGED nonRatingVars

----------------------------------------------------------------------------
(* Game scores and leaderboard: api/media_api.py *)

Names == {"A", "B"}
NoName == ""

NoPath == [given |-> FALSE, username |-> NoName, time |-> 0]
NoJson == [kind |-> "none", user |-> NoName, username |-> NoName, time |-> JNull]

(* /score/<string:username>/<int:time>: a non-empty name, digits only *)
ScorePaths ==
    {[given |-> TRUE, username |-> "A", time |-> 0],
     [given |-> TRUE, username |-> "B", time |-> 40]}

TimeInputs ==
    {JNull, JInf, JInt(-5), JInt(0), JInt(30), JInt(40), JInt(50),
     JFloat(305), JStr(<<"4", "0">>), JStr(<<"a", "b", "c">>)}

ScoreBodies ==
    {NoJson} \cup {[kind |-> "dict", user |-> u, username |-> n, time |-> t] :
                      u \in {NoName, "A"}, n \in {NoName, "B"}, t \in TimeInputs}

(* the two request formats of the endpoint: path parameters without a     *)
(* body, or a JSON body without path parameters                            *)
ScoreRequests ==
    {[path |-> p, body |-> NoJson] : p \in ScorePaths}
    \cup {[path |-> NoPath, body |-> b] : b \in {c \in ScoreBodies : c.user = NoName \/ c.username = NoName}}

(* lines 136-161: the status code, and the username and time to store *)
ValidateScore(path, body) ==
    IF path.given /\ path.username # NoName /\ path.time # 0
    THEN [code |-> 201, username |-> path.username, time |-> path.time]
    ELSE IF body.kind = "none" THEN [code |-> 400, username |-> NoName, time |-> 0]
    ELSE LET uname == IF body.user # NoName THEN body.user ELSE body.username
         IN  IF uname = NoName THEN [code |-> 400, username |-> NoName, time |-> 0]
             ELSE IF ~PyTruthy(body.time) THEN [code |-> 400, username |-> NoName, time |-> 0]
             ELSE LET c == PyInt(body.time)
                  IN  IF c.ok THEN [code |-> 201, username |-> uname, time |-> c.v]
                      ELSE [code |-> IF c.err \in {"ValueError", "TypeError"} THEN 400 ELSE 500,
                            username |-> NoName, time |-> 0]

NoScoreResp ==
    [op |-> "none", id |-> 0, code |-> 0, path |-> NoPath, time |-> JNull,
     stored |-> FALSE, dbError |-> FALSE, limit |-> 0, board |-> <<>>]

(* MediaScoreAPI.post with MediaScore.create; a failing commit is rolled   *)
(* back and answered with 500                                              *)
MediaScoreAPI_post(path, body, commitOk) ==
    /\ LET v == ValidateScore(path, body)
           stored == v.code = 201 /\ commitOk
           entry == [id |-> nextScoreId, username |-> v.username, time |-> v.time]
       IN  /\ stored => Len(scores) < MaxScores
           /\ scores' = IF stored THEN Append(scores, entry) ELSE scores
           /\ nextScoreId' = IF stored THEN nextScoreId + 1 ELSE nextScoreId
           /\ scoreResp' = [NoScoreResp EXCEPT
                               !.op = "post", !.path = path, !.time = body.time,
                               !.code = IF v.code = 201 /\ ~commitOk THEN 500 ELSE v.code,
                               !.stored = stored,
                               !.dbError = (v.code = 201 /\ ~commitOk)]
    /\ UNCHANGED nonMediaVars

MinOf(S) == CHOOSE m \in S : \A x \in S : m <= x

MaxOf(S) == CHOOSE m \in S : \A x \in S : m >= x

BestTime_max(rows, username) ==
    MaxOf({rows[i].time : i \in {j \in 1..Len(rows) : rows[j].username = username}})

(* func.min(MediaScore.time) ... group_by(MediaScore.username) *)
BestTime(rows, username) ==
    MinOf({rows[i].time : i \in {j \in 1..Len(rows) : rows[j].username = username}})

(* the join: the rows whose time is their username's best time *)
JoinedRows(rows) ==
    {i \in 1..Len(rows) : rows[i].time = BestTime(rows, rows[i].username)}

(* order_by(MediaScore.time.asc()) *)
OrderedByTime(rows, f, n) == \A i, j \in 1..n : i < j => rows[f[i]].time <= rows[f[j]].time

(* every order the database may return the joined rows in *)
QueryOrders(rows) ==
    LET J == JoinedRows(rows)
        n == Cardinality(J)
    IN  {f \in [1..n -> J] :
            /\ \A i, j \in 1..n : i # j => f[i] # f[j]
            /\ OrderedByTime(rows, f, n)}

DefaultLimit == 50

(* request.args.get('limit', 50, type=int) *)
ParseLimit(arg) ==
    IF ~arg.given THEN DefaultLimit
    ELSE LET c == StrToInt(arg.s) IN IF c.ok THEN c.v ELSE DefaultLimit

NoArg == [given |-> FALSE, s |-> <<>>]
LimitArgs ==
    {NoArg} \cup {[given |-> TRUE, s |-> cs] : cs \in {<<"0">>, <<"1">>, <<"2">>, <<"x">>}}

FirstRank == 1

(* enumerate(scores, start=1) over the first `limit` rows of the query *)
Leaderboard(rows, f, limit) ==
    LET n == IF limit < Len(f) THEN limit ELSE Len(f)
    IN  [k \in 1..n |->
            [id |-> rows[f[k]].id, username |-> rows[f[k]].username,
             time |-> rows[f[k]].time, rank |-> FirstRank + k - 1]]

MediaLeaderboardAPI_get(arg) ==
    /\ \E f \in QueryOrders(scores) :
          scoreResp' = [NoScoreResp EXCEPT
                           !.op = "leaderboard", !.code = 200, !.limit = ParseLimit(arg),
                           !.board = Leaderboard(scores, f, ParseLimit(arg))]
    /\ UNCHANGED <<scores, nextScoreId>>
    /\ UNCHANGED nonMediaVars

(* Administrative update and delete of a game score:                       *)
(* MediaScoreUpdateAPI.put, MediaScoreDeleteAPI.delete (api/media_api.py), *)
(* update_media_score and delete_media_score (main.py)                     *)

NoUpdateBody == [kind |-> "none", username |-> NoName, hasTime |-> FALSE, time |-> JNull]

UpdateTimeInputs ==
    {JNull, JInf, JInt(-5), JInt(4000), JStr(<<"a", "b", "c">>)}

(* JSON null, {username}, {time}, and {username, time} with a time that    *)
(* converts and one that does not                                          *)
UpdateBodies ==
    {NoUpdateBody,
     [kind |-> "dict", username |-> "A", hasTime |-> FALSE, time |-> JNull]}
    \cup {[kind |-> "dict", username |-> NoName, hasTime |-> TRUE, time |-> t] :
             t \in UpdateTimeInputs}
    \cup {[kind |-> "dict", username |-> "A", hasTime |-> TRUE, time |-> t] :
             t \in {JInt(-5), JStr(<<"a", "b", "c">>)}}

(* ids an admin request may name: those of the rows and one beyond *)
ScoreIds == 1..(MaxAdminScores + 1)

(* MediaScoreUpdateAPI.put, lines 215-228: the status code and the row     *)
(* after the assignments. A time that int() rejects with ValueError or     *)
(* TypeError is answered 400, anything else goes to the outer handler.     *)
ValidateScorePut(row, body) ==
    IF body.kind = "none" THEN [code |-> 500, row |-> row]
    ELSE LET named == IF body.username # NoName
                      THEN [row EXCEPT !.username = body.username] ELSE row
         IN  IF ~body.hasTime \/ body.time.t = "null" THEN [code |-> 200, row |-> named]
             ELSE LET c == PyInt(body.time)
                  IN  IF c.ok THEN [code |-> 200, row |-> [named EXCEPT !.time = c.v]]
                      ELSE [code |-> IF c.err \in {"ValueError", "TypeError"} THEN 400 ELSE 500,
                            row |-> row]

(* update_media_score, lines 380-385: int() is not guarded *)
ValidateScoreUpdate(row, data) ==
    IF data.kind = "none" THEN [code |-> 500, row |-> row]
    ELSE LET named == IF data.username # NoName
                      THEN [row EXCEPT !.username = data.username] ELSE row
         IN  IF ~data.hasTime THEN [code |-> 200, row |-> named]
             ELSE LET c == PyInt(data.time)
                  IN  IF c.ok THEN [code |-> 200, row |-> [named EXCEPT !.time = c.v]]
                      ELSE [code |-> 500, row |-> row]

(* MediaScore.query.get(score_id): the position of the row, 0 if none *)
ScoreRowOf(rows, score_id) ==
    IF \E i \in 1..Len(rows) : rows[i].id = score_id
    THEN CHOOSE i \in 1..Len(rows) : rows[i].id = score_id
    ELSE 0

MediaScoreUpdateAPI_put(score_id, body, commitOk) ==
    /\ LET i == ScoreRowOf(scores, score_id)
           v == IF i = 0 THEN [code |-> 404, row |-> NoPath]
                ELSE ValidateScorePut(scores[i], body)
           done == v.code = 200 /\ commitOk
       IN  /\ scores' = IF done THEN [scores EXCEPT ![i] = v.row] ELSE scores
           /\ scoreResp' = [NoScoreResp EXCEPT
                               !.op = "put", !.id = score_id,
                               !.code = IF v.code = 200 /\ ~commitOk THEN 500 ELSE v.code,
                               !.dbError = (v.code = 200 /\ ~commitOk)]
    /\ UNCHANGED nextScoreId
    /\ UNCHANGED nonMediaVars

update_media_score(score_id, data, commitOk) ==
    /\ LET i == ScoreRowOf(scores, score_id)
           v == IF i = 0 THEN [code |-> 404, row |-> NoPath]
                ELSE ValidateScoreUpdate(scores[i], data)
           done == v.code = 200 /\ commitOk
       IN  /\ scores' = IF done THEN [scores EXCEPT ![i] = v.row] ELSE scores
           /\ scoreResp' = [NoScoreResp EXCEPT
                               !.op = "update_media_score", !.id = score_id,
                               !.code = IF v.code = 200 /\ ~commitOk THEN 500 ELSE v.code,
                               !.dbError = (v.code = 200 /\ ~commitOk)]
    /\ UNCHANGED nextScoreId
    /\ UNCHANGED nonMediaVars

(* the lookup, db.session.delete and commit of both delete handlers *)
DeleteScore(op, score_id, commitOk) ==
    LET i == ScoreRowOf(scores, score_id)
    IN  /\ scores' = IF i # 0 /\ commitOk
                     THEN [k \in 1..(Len(scores) - 1) |->
                              IF k < i THEN scores[k] ELSE scores[k + 1]]
                     ELSE scores
        /\ scoreResp' = [NoScoreResp EXCEPT
                            !.op = op, !.id = score_id,
                            !.code = IF i = 0 THEN 404 ELSE IF commitOk THEN 200 ELSE 500,
                            !.dbError = (i # 0 /\ ~commitOk)]
        /\ UNCHANGED nextScoreId

MediaScoreDeleteAPI_delete(score_id, commitOk) ==
    /\ DeleteScore("delete", score_id, commitOk)
    /\ UNCHANGED nonMediaVars

delete_media_score(score_id, commitOk) ==
    /\ DeleteScore("delete_media_score", score_id, commitOk)
    /\ UNCHANGED nonMediaVars

----------------------------------------------------------------------------
(* Multi-question ratings: model/performance.py, class MultiRating *)

QNames == <<"q1", "q2", "q3", "q4", "q5">>
QInputs == {JInt(1), JInt(6), JStr(<<"x">>)}

(* answer vectors in which at most two answers differ from a plain 1 *)
MultiInputs ==
    {qs \in [1..5 -> QInputs] : Cardinality({i \in 1..5 : qs[i] # JInt(1)}) <= 2}

(* __init__, lines 95-101: int() of each answer in turn; the first one     *)
(* that does not convert raises                                            *)
RECURSIVE FirstBad(_, _)
FirstBad(qs, i) ==
    IF i > Len(qs) THEN 0
    ELSE IF ~PyInt(qs[i]).ok THEN i
    ELSE FirstBad(qs, i + 1)

MultiRating_init(user_id, qs) ==
    [user_id |-> user_id, q |-> [i \in 1..Len(qs) |-> PyInt(qs[i]).v]]

NoMultiResp == [done |-> FALSE, ok |-> FALSE, err |-> "none", field |-> "none", qs |-> <<>>]

(* MultiRating(user_id, q1..q5).create() *)
MultiRating_create(user_id, qs) ==
    /\ Len(multiratings) < MaxMulti
    /\ LET bad == FirstBad(qs, 1)
       IN  IF bad = 0
           THEN /\ multiratings' = Append(multiratings, MultiRating_init(user_id, qs))
                /\ multiResp' = [done |-> TRUE, ok |-> TRUE, err |-> "none",
                                 field |-> "none", qs |-> qs]
           ELSE /\ multiratings' = multiratings
                /\ multiResp' = [done |-> TRUE, ok |-> FALSE, err |-> PyInt(qs[bad]).err,
                                 field |-> "none", qs |-> qs]
    /\ UNCHANGED nonMultiVars

----------------------------------------------------------------------------
(* Administrative update and delete of a rating: table `performances`      *)
(* (model/performance.py, class Performance), PerformanceAPI._ReadID.put   *)
(* and .delete (hacks/performance.py), update_performance and              *)
(* delete_performance (main.py)                                            *)

(* request.get_json() of an admin request: JSON null, or an object that    *)
(* is empty, has only other keys, or has the key 'rating'                  *)
NoAdminBody == [kind |-> "none", keys |-> "none", rating |-> JNull]

AdminRatingInputs ==
    {JNull, JInf, JInt(0), JInt(3), JInt(5), JInt(6), JFloat(55),
     JStr(<<"4">>), JStr(<<"a", "b", "c">>)}

AdminBodies ==
    {NoAdminBody,
     [kind |-> "dict", keys |-> "none", rating |-> JNull],
     [kind |-> "dict", keys |-> "other", rating |-> JNull]}
    \cup {[kind |-> "dict", keys |-> "rating", rating |-> r] : r \in AdminRatingInputs}

(* seed_data.py draws the rating of a seeded row from [1, 2, 3, 4, 5] *)
SeedRatings == {1, 2, 3, 4, 5}

(* ids an admin request may name: those of the rows and one beyond *)
PerfIds == 1..(MaxPerfRows + 1)

NoAdminResp ==
    [op |-> "none", id |-> 0, body |-> NoAdminBody, code |-> 0, existed |-> FALSE,
     dbError |-> FALSE, before |-> <<>>]

(* Performance.query.get(id): the position of the row, 0 if there is none *)
RowOf(table, id) ==
    IF \E i \in 1..Len(table) : table[i].id = id
    THEN CHOOSE i \in 1..Len(table) : table[i].id = id
    ELSE 0

(* db.session.delete(row) *)
WithoutRow(table, i) ==
    [k \in 1..(Len(table) - 1) |-> IF k < i THEN table[k] ELSE table[k + 1]]

(* a change of the table `performances` is a write to the rating store:    *)
(* earlier getPerformance results are no longer comparable                 *)
ForgetGets ==
    /\ lastGet' = NoGet
    /\ prevGet' = NoGet
    /\ UNCHANGED <<argId, stats, raced, lastRaced, readFrom, lastReadFrom>>

(* Performance(rating, user_id).create(), as the seeding script calls it *)
Performance_create(r, user_id) ==
    /\ Len(perfTable) < MaxPerfRows
    /\ perfTable' = Append(perfTable, [id |-> nextPerfId, rating |-> r, user_id |-> user_id])
    /\ nextPerfId' = nextPerfId + 1
    /\ adminResp' = [NoAdminResp EXCEPT !.op = "create", !.id = nextPerfId,
                                        !.code = 200, !.before = perfTable]
    /\ ForgetGets
    /\ UNCHANGED nonAdminVars

(* _ReadID.put, lines 129-148: the status code and the rating to assign    *)
(* (0: the rating is left alone). The body is tested before the row is     *)
(* looked up; OverflowError falls through to the outer handler.            *)
ValidatePut(data, existed) ==
    IF data.kind = "none" \/ data.keys = "none" THEN [code |-> 400, rating |-> 0]
    ELSE IF ~existed THEN [code |-> 404, rating |-> 0]
    ELSE IF data.keys # "rating" \/ data.rating.t = "null" THEN [code |-> 200, rating |-> 0]
    ELSE LET c == PyInt(data.rating)
         IN  IF ~c.ok
             THEN [code |-> IF c.err \in {"ValueError", "TypeError"} THEN 400 ELSE 500,
                   rating |-> 0]
             ELSE IF c.v \notin AllowedRatings THEN [code |-> 400, rating |-> 0]
             ELSE [code |-> 200, rating |-> c.v]

(* update_performance, lines 326-337: the row is looked up first, int()    *)
(* is not guarded, so whatever it raises ends the request with 500         *)
ValidateUpdate(data, existed) ==
    IF ~existed THEN [code |-> 404, rating |-> 0]
    ELSE IF data.kind = "none" THEN [code |-> 500, rating |-> 0]
    ELSE IF data.keys # "rating" THEN [code |-> 200, rating |-> 0]
    ELSE LET c == PyInt(data.rating)
         IN  IF ~c.ok THEN [code |-> 500, rating |-> 0]
             ELSE IF c.v \notin AllowedRatings THEN [code |-> 400, rating |-> 0]
             ELSE [code |-> 200, rating |-> c.v]

(* the row assignment followed by db.session.commit(); a failing commit    *)
(* leaves the table as it was and is answered with 500                     *)
CommitUpdate(op, id, data, v, commitOk) ==
    LET i == RowOf(perfTable, id)
        done == v.code = 200 /\ commitOk
    IN  /\ perfTable' = IF done /\ v.rating # 0
                        THEN [perfTable EXCEPT ![i].rating = v.rating]
                        ELSE perfTable
        /\ adminResp' = [op |-> op, id |-> id, body |-> data,
                         code |-> IF v.code = 200 /\ ~commitOk THEN 500 ELSE v.code,
                         existed |-> i # 0, dbError |-> (v.code = 200 /\ ~commitOk),
                         before |-> perfTable]
        /\ UNCHANGED nextPerfId

PerformanceAPI_ReadID_put(id, data, commitOk) ==
    /\ CommitUpdate("put", id, data, ValidatePut(data, RowOf(perfTable, id) # 0), commitOk)
    /\ ForgetGets
    /\ UNCHANGED nonAdminVars

update_performance(perf_id, data, commitOk) ==
    /\ CommitUpdate("update_performance", perf_id, data,
                    ValidateUpdate(data, RowOf(perfTable, perf_id) # 0), commitOk)
    /\ ForgetGets
    /\ UNCHANGED nonAdminVars

(* the lookup, db.session.delete and commit of both delete handlers *)
CommitDelete(op, id, commitOk) ==
    LET i == RowOf(perfTable, id)
    IN  /\ perfTable' = IF i # 0 /\ commitOk THEN WithoutRow(perfTable, i) ELSE perfTable
        /\ adminResp' = [op |-> op, id |-> id, body |-> NoAdminBody,
                         code |-> IF i = 0 THEN 404 ELSE IF commitOk THEN 200 ELSE 500,
                         existed |-> i # 0, dbError |-> (i # 0 /\ ~commitOk),
                         before |-> perfTable]
        /\ UNCHANGED nextPerfId

PerformanceAPI_ReadID_delete(id, commitOk) ==
    /\ CommitDelete("delete", id, commitOk)
    /\ ForgetGets
    /\ UNCHANGED nonAdminVars

delete_performance(perf_id, commitOk) ==
    /\ CommitDelete("delete_performance", perf_id, commitOk)
    /\ ForgetGets
    /\ UNCHANGED nonAdminVars

----------------------------------------------------------------------------
(* File-backed prompt store: hacks/prompts.py, served by hacks/prompt.py *)

PromptWorkers == {1, 2}

(* the five static prompts, by a key word of their text *)
prompt_list == <<"bias", "stories", "compare", "controversial", "reliable">>

NoTime == 0
NoEffectiveness == [successful_completions |-> 0, total_uses |-> 0, success_rate |-> 0]
NoUsage == [media_bias |-> 0, thesis_gen |-> 0, citations |-> 0]
NoPrompt ==
    [id |-> 0, text |-> "", clicks |-> 0, effectiveness |-> NoEffectiveness,
     usage_by_section |-> NoUsage, unique_users |-> <<>>, last_clicked |-> NoTime,
     trending_score |-> 0]

(* initPrompts, lines 48-71: the list written by the initialisation *)
prompts_data ==
    [idx \in 1..Len(prompt_list) |->
        [id |-> idx, text |-> prompt_list[idx], clicks |-> 0,
         effectiveness |-> NoEffectiveness, usage_by_section |-> NoUsage,
         unique_users |-> <<>>, last_clicked |-> NoTime, trending_score |-> 0]]

(* prompts.json: the document and the layout json.dump gave it (compact,   *)
(* or indent=4, which is the longer text)                                  *)
AbsentPrompts == [kind |-> "absent", data |-> <<>>, indent |-> 0]
EmptyPrompts == [kind |-> "empty", data |-> <<>>, indent |-> 0]
CorruptPrompts == [kind |-> "corrupt", data |-> <<>>, indent |-> 0]
PromptsDoc(d, indent) == [kind |-> "json", data |-> d, indent |-> indent]

(* close() of the 'w' handle of _write_prompts_file flushes the compact    *)
(* text of json.dump(data) at offset 0 without truncating: over an empty   *)
(* file or over the same text it leaves that text, over a longer document  *)
(* it leaves the new text followed by the old tail, which does not parse   *)
FlushPrompts(f, d) ==
    IF f.kind = "empty" \/ f = PromptsDoc(d, 0) THEN PromptsDoc(d, 0)
    ELSE CorruptPrompts

(* the for loop of getPrompt, lines 84-87; None is NoPrompt *)
RECURSIVE getPrompt(_, _)
getPrompt(ps, id) ==
    IF ps = <<>> THEN NoPrompt
    ELSE IF ps[1].id = id THEN ps[1]
    ELSE getPrompt(Tail(ps), id)

(* getPromptClicks, lines 91-93: {id: clicks} as a set of pairs *)
getPromptClicks(ps) == {<<ps[i].id, ps[i].clicks>> : i \in 1..Len(ps)}

(* countPrompts, lines 179-180 *)
countPrompts(ps) == Len(ps)

(* increment_prompt_click, lines 163-164 *)
hours_since_click == 0
time_decay == MaxOf({0, (24 - hours_since_click) \div 24})

(* increment_prompt_click, lines 115-167, called with an id only: the      *)
(* first prompt with that id gets clicks, last_clicked and trending_score  *)
(* updated; now is datetime.now(). With user_id, section and               *)
(* led_to_success None, steps 2 to 4 leave unique_users, usage_by_section  *)
(* and effectiveness alone.                                                *)
ClickedPrompt_stale(prompt, now) ==
    [prompt EXCEPT !.clicks = prompt.clicks + 1,
                   !.last_clicked = now,
                   !.trending_score = prompt.clicks * time_decay]

ClickedPrompt(prompt, now) ==
    [prompt EXCEPT !.clicks = prompt.clicks + 1,
                   !.last_clicked = now,
                   !.trending_score = (prompt.clicks + 1) * time_decay]

FirstWithId(ps, id) ==
    IF \E i \in 1..Len(ps) : ps[i].id = id
    THEN CHOOSE i \in 1..Len(ps) :
            /\ ps[i].id = id
            /\ \A j \in 1..(i - 1) : ps[j].id # id
    ELSE 0

Increment(ps, id, now) ==
    [i \in 1..Len(ps) |->
        IF i = FirstWithId(ps, id) THEN ClickedPrompt(ps[i], now)
        ELSE ps[i]]

(* the ids the click and get endpoints are called with: two prompts and   *)
(* an id no prompt has                                                     *)
ClickIds == {1, 2, 6}

PromptReaders == {"getPrompts", "getPromptClicks", "countPrompts"}
NoPromptCall == [op |-> "none", id |-> 0]
NoPromptResp == [op |-> "none", id |-> 0, code |-> 0, val |-> NoPrompt, data |-> <<>>]

PromptLockFree == pLockEx = 0 /\ pLockSh = {}

(* the worker answers the request with the list `data` it has read:       *)
(* hacks/prompt.py lines 15-69                                             *)
PromptReturn(w, data) ==
    /\ plast' = [op |-> pcall[w].op, id |-> pcall[w].id,
                 code |-> IF pcall[w].op \in {"getPrompt", "click"}
                                /\ getPrompt(data, pcall[w].id) = NoPrompt
                          THEN 404 ELSE 200,
                 val |-> IF pcall[w].op \in {"getPrompt", "click"}
                         THEN getPrompt(data, pcall[w].id) ELSE NoPrompt,
                 data |-> IF pcall[w].op \in {"getPrompt", "click"} THEN <<>> ELSE data]
    /\ ppc' = [ppc EXCEPT ![w] = "idle"]
    /\ pcall' = [pcall EXCEPT ![w] = NoPromptCall]
    /\ pData' = [pData EXCEPT ![w] = <<>>]

(* the handler's except clause: the request is answered with 500 *)
PromptRaise(w) ==
    /\ plast' = [op |-> pcall[w].op, id |-> pcall[w].id, code |-> 500,
                 val |-> NoPrompt, data |-> <<>>]
    /\ ppc' = [ppc EXCEPT ![w] = "idle"]
    /\ pcall' = [pcall EXCEPT ![w] = NoPromptCall]
    /\ pData' = [pData EXCEPT ![w] = <<>>]

(* initPrompts, lines 41-46, called when a worker process starts *)
initPrompts(w) ==
    /\ ppc[w] = "idle"
    /\ promptsFile.kind = "absent"
    /\ ppc' = [ppc EXCEPT ![w] = "pw_open"]
    /\ pcall' = [pcall EXCEPT ![w] = [op |-> "initPrompts", id |-> 0]]
    /\ UNCHANGED <<promptsFile, pLockEx, pLockSh, prompts, pData, plast, clicked,
                   promptNow, nClicks>>
    /\ UNCHANGED promptDbVars
    /\ UNCHANGED nonPromptVars

(* _write_prompts_file, line 36: open(PROMPTS_FILE, 'w') creates the file  *)
(* or truncates it to zero length                                          *)
pw_open(w) ==
    /\ ppc[w] = "pw_open"
    /\ promptsFile' = EmptyPrompts
    /\ ppc' = [ppc EXCEPT ![w] = "pw_lock"]
    /\ UNCHANGED <<pLockEx, pLockSh, pcall, prompts, pData, plast, clicked,
                   promptNow, nClicks>>
    /\ UNCHANGED promptDbVars
    /\ UNCHANGED nonPromptVars

(* lines 37-38: flock(LOCK_EX), then json.dump into the handle's buffer *)
pw_lock(w) ==
    /\ ppc[w] = "pw_lock"
    /\ PromptLockFree
    /\ pLockEx' = w
    /\ ppc' = [ppc EXCEPT ![w] = "pw_unlock"]
    /\ UNCHANGED <<promptsFile, pLockSh, pcall, prompts, pData, plast, clicked,
                   promptNow, nClicks>>
    /\ UNCHANGED promptDbVars
    /\ UNCHANGED nonPromptVars

(* line 39: flock(LOCK_UN) *)
pw_unlock(w) ==
    /\ ppc[w] = "pw_unlock"
    /\ pLockEx' = 0
    /\ ppc' = [ppc EXCEPT ![w] = "pw_close"]
    /\ UNCHANGED <<promptsFile, pLockSh, pcall, prompts, pData, plast, clicked,
                   promptNow, nClicks>>
    /\ UNCHANGED promptDbVars
    /\ UNCHANGED nonPromptVars

(* end of the with block: close() flushes the buffered text to the file *)
pw_close(w) ==
    /\ ppc[w] = "pw_close"
    /\ promptsFile' = FlushPrompts(promptsFile, prompts_data)
    /\ ppc' = [ppc EXCEPT ![w] = "idle"]
    /\ pcall' = [pcall EXCEPT ![w] = NoPromptCall]
    /\ UNCHANGED <<pLockEx, pLockSh, prompts, pData, plast, clicked, promptNow, nClicks>>
    /\ UNCHANGED promptDbVars
    /\ UNCHANGED nonPromptVars

(* POST /api/prompts/<int:id>/click: _IncrementClick.post, lines 48-51.   *)
(* A worker serves requests once the initPrompts() call of its start-up    *)
(* (main.py, lines 110-113) has returned, so prompts.json exists.          *)
IncrementClick_post(w, id) ==
    /\ ppc[w] = "idle"
    /\ promptsFile.kind # "absent"
    /\ nClicks < MaxClicks
    /\ nClicks' = nClicks + 1
    /\ ppc' = [ppc EXCEPT ![w] = "pi_open"]
    /\ pcall' = [pcall EXCEPT ![w] = [op |-> "click", id |-> id]]
    /\ UNCHANGED <<promptsFile, pLockEx, pLockSh, prompts, pData, plast, clicked,
                   promptNow>>
    /\ UNCHANGED promptDbVars
    /\ UNCHANGED nonPromptVars

(* increment_prompt_click, line 110: open(PROMPTS_FILE, 'r+') raises       *)
(* FileNotFoundError when there is no file                                 *)
pi_open(w) ==
    /\ ppc[w] = "pi_open"
    /\ IF promptsFile.kind = "absent"
       THEN PromptRaise(w)
       ELSE /\ ppc' = [ppc EXCEPT ![w] = "pi_lock"]
            /\ UNCHANGED <<pcall, pData, plast>>
    /\ UNCHANGED <<promptsFile, pLockEx, pLockSh, prompts, clicked, promptNow, nClicks>>
    /\ UNCHANGED promptDbVars
    /\ UNCHANGED nonPromptVars

(* line 111: flock(LOCK_EX) *)
pi_lock(w) ==
    /\ ppc[w] = "pi_lock"
    /\ PromptLockFree
    /\ pLockEx' = w
    /\ ppc' = [ppc EXCEPT ![w] = "pi_load"]
    /\ UNCHANGED <<promptsFile, pLockSh, pcall, prompts, pData, plast, clicked,
                   promptNow, nClicks>>
    /\ UNCHANGED promptDbVars
    /\ UNCHANGED nonPromptVars

pi_load_held(w) ==
    /\ ppc[w] = "pi_load"
    /\ IF promptsFile.kind # "json"
       THEN /\ UNCHANGED pLockEx
            /\ PromptRaise(w)
            /\ UNCHANGED <<prompts, promptNow>>
       ELSE /\ prompts' = [prompts EXCEPT ![w] =
                              Increment(promptsFile.data, pcall[w].id, promptNow + 1)]
            /\ promptNow' = promptNow + 1
            /\ ppc' = [ppc EXCEPT ![w] = "pi_write"]
            /\ UNCHANGED <<pLockEx, pcall, pData, plast>>
    /\ UNCHANGED <<promptsFile, pLockSh, clicked, nClicks>>
    /\ UNCHANGED promptDbVars
    /\ UNCHANGED nonPromptVars

(* lines 112-167: json.load, which raises on a text that does not parse    *)
(* (leaving the with block closes the file and so drops the lock), then    *)
(* the update of the matching prompt in the loaded list                    *)
pi_load(w) ==
    /\ ppc[w] = "pi_load"
    /\ IF promptsFile.kind # "json"
       THEN /\ pLockEx' = 0
            /\ PromptRaise(w)
            /\ UNCHANGED <<prompts, promptNow>>
       ELSE /\ prompts' = [prompts EXCEPT ![w] =
                              Increment(promptsFile.data, pcall[w].id, promptNow + 1)]
            /\ promptNow' = promptNow + 1
            /\ ppc' = [ppc EXCEPT ![w] = "pi_write"]
            /\ UNCHANGED <<pLockEx, pcall, pData, plast>>
    /\ UNCHANGED <<promptsFile, pLockSh, clicked, nClicks>>
    /\ UNCHANGED promptDbVars
    /\ UNCHANGED nonPromptVars

(* lines 170-172: seek(0), json.dump(indent=4), truncate (which flushes) *)
pi_write(w) ==
    /\ ppc[w] = "pi_write"
    /\ promptsFile' = PromptsDoc(prompts[w], 4)
    /\ clicked' = [i \in DOMAIN clicked |->
                     IF i = pcall[w].id /\ getPrompt(prompts[w], i) # NoPrompt
                     THEN clicked[i] + 1 ELSE clicked[i]]
    /\ prompts' = [prompts EXCEPT ![w] = <<>>]
    /\ ppc' = [ppc EXCEPT ![w] = "pi_unlock"]
    /\ UNCHANGED <<pLockEx, pLockSh, pcall, pData, plast, promptNow, nClicks>>
    /\ UNCHANGED promptDbVars
    /\ UNCHANGED nonPromptVars

(* lines 173-175: flock(LOCK_UN), then return getPrompt(id) *)
pi_unlock(w) ==
    /\ ppc[w] = "pi_unlock"
    /\ pLockEx' = 0
    /\ ppc' = [ppc EXCEPT ![w] = "pr_open"]
    /\ UNCHANGED <<promptsFile, pLockSh, pcall, prompts, pData, plast, clicked,
                   promptNow, nClicks>>
    /\ UNCHANGED promptDbVars
    /\ UNCHANGED nonPromptVars

(* GET /api/prompts, /clicks, /count: getPrompts, getPromptClicks or       *)
(* countPrompts is called                                                  *)
PromptReader_call(w, fn) ==
    /\ ppc[w] = "idle"
    /\ promptsFile.kind # "absent"
    /\ ppc' = [ppc EXCEPT ![w] = "pr_open"]
    /\ pcall' = [pcall EXCEPT ![w] = [op |-> fn, id |-> 0]]
    /\ UNCHANGED <<promptsFile, pLockEx, pLockSh, prompts, pData, plast, clicked,
                   promptNow, nClicks>>
    /\ UNCHANGED promptDbVars

PromptReader(w, fn) == PromptReader_call(w, fn) /\ UNCHANGED nonPromptVars

(* GET /api/prompts/<int:id>: _ReadID.get calls getPrompt(id) *)
PromptReadID_get(w, id) ==
    /\ ppc[w] = "idle"
    /\ promptsFile.kind # "absent"
    /\ ppc' = [ppc EXCEPT ![w] = "pr_open"]
    /\ pcall' = [pcall EXCEPT ![w] = [op |-> "getPrompt", id |-> id]]
    /\ UNCHANGED <<promptsFile, pLockEx, pLockSh, prompts, pData, plast, clicked,
                   promptNow, nClicks>>
    /\ UNCHANGED promptDbVars
    /\ UNCHANGED nonPromptVars

(* _read_prompts_file, lines 22-24: a missing file reads as [] *)
pr_open(w) ==
    /\ ppc[w] = "pr_open"
    /\ IF promptsFile.kind = "absent"
       THEN PromptReturn(w, <<>>)
       ELSE /\ ppc' = [ppc EXCEPT ![w] = "pr_lock"]
            /\ UNCHANGED <<pcall, pData, plast>>
    /\ UNCHANGED <<promptsFile, pLockEx, pLockSh, prompts, clicked, promptNow, nClicks>>
    /\ UNCHANGED promptDbVars
    /\ UNCHANGED nonPromptVars

(* line 25: flock(LOCK_SH) *)
pr_lock(w) ==
    /\ ppc[w] = "pr_lock"
    /\ pLockEx = 0
    /\ pLockSh' = pLockSh \cup {w}
    /\ ppc' = [ppc EXCEPT ![w] = "pr_load"]
    /\ UNCHANGED <<promptsFile, pLockEx, pcall, prompts, pData, plast, clicked,
                   promptNow, nClicks>>
    /\ UNCHANGED promptDbVars
    /\ UNCHANGED nonPromptVars

(* lines 26-29: json.load, every failure read as [] *)
pr_load(w) ==
    /\ ppc[w] = "pr_load"
    /\ pData' = [pData EXCEPT ![w] =
                    IF promptsFile.kind = "json" THEN promptsFile.data ELSE <<>>]
    /\ ppc' = [ppc EXCEPT ![w] = "pr_unlock"]
    /\ UNCHANGED <<promptsFile, pLockEx, pLockSh, pcall, prompts, plast, clicked,
                   promptNow, nClicks>>
    /\ UNCHANGED promptDbVars
    /\ UNCHANGED nonPromptVars

(* lines 30-31: flock(LOCK_UN), return data *)
pr_unlock(w) ==
    /\ ppc[w] = "pr_unlock"
    /\ pLockSh' = pLockSh \ {w}
    /\ PromptReturn(w, pData[w])
    /\ UNCHANGED <<promptsFile, pLockEx, prompts, clicked, promptNow, nClicks>>
    /\ UNCHANGED promptDbVars
    /\ UNCHANGED nonPromptVars

(* the steps a worker takes inside a call on the prompt store *)
PromptStep(w) ==
        \/ pw_open(w)
        \/ pw_lock(w)
        \/ pw_unlock(w)
        \/ pw_close(w)
        \/ pi_open(w)
        \/ pi_lock(w)
        \/ pi_load(w)
        \/ pi_write(w)
        \/ pi_unlock(w)
        \/ pr_open(w)
        \/ pr_lock(w)
        \/ pr_load(w)
        \/ pr_unlock(w)

----------------------------------------------------------------------------
(* Table prompt_clicks: model/prompt.py *)

DbPromptIds == {1, 6}
NoClickRow == [id |-> 0, prompt_id |-> 0, clicks |-> 0, expired |-> FALSE]

ClickRowOf(table, prompt_id) ==
    IF \E i \in 1..Len(table) : table[i].prompt_id = prompt_id
    THEN CHOOSE i \in 1..Len(table) : table[i].prompt_id = prompt_id
    ELSE 0

(* init_prompt_clicks, lines 53-61: one transaction that adds a row with   *)
(* clicks 0 for each of the prompts 1..5 that has none                     *)
RECURSIVE AddMissing(_, _, _)
AddMissing(table, i, next) ==
    IF i > 5 THEN table
    ELSE IF ClickRowOf(table, i) # 0 THEN AddMissing(table, i + 1, next)
    ELSE AddMissing(Append(table, [id |-> next, prompt_id |-> i, clicks |-> 0]),
                    i + 1, next + 1)

init_prompt_clicks ==
    /\ \E i \in 1..5 : ClickRowOf(promptClicks, i) = 0
    /\ promptClicks' = AddMissing(promptClicks, 1, nextClickId)
    /\ nextClickId' = nextClickId + (Len(promptClicks') - Len(promptClicks))
    /\ UNCHANGED <<loadedClick, dbClicked>>
    /\ UNCHANGED promptFileVars
    /\ UNCHANGED nonPromptVars

(* PromptClick.get_or_create, lines 37-44, in the session of worker w: the *)
(* row found by the query is held with the values the query loaded; a row  *)
(* that is created is committed, which expires the object                  *)
PromptClick_get_or_create(w, prompt_id) ==
    /\ loadedClick[w] = NoClickRow
    /\ LET i == ClickRowOf(promptClicks, prompt_id) IN
       IF i # 0
       THEN /\ loadedClick' = [loadedClick EXCEPT ![w] =
                                 [id |-> promptClicks[i].id, prompt_id |-> prompt_id,
                                  clicks |-> promptClicks[i].clicks, expired |-> FALSE]]
            /\ UNCHANGED <<promptClicks, nextClickId>>
       ELSE /\ promptClicks' = Append(promptClicks,
                                 [id |-> nextClickId, prompt_id |-> prompt_id, clicks |-> 0])
            /\ nextClickId' = nextClickId + 1
            /\ loadedClick' = [loadedClick EXCEPT ![w] =
                                 [id |-> nextClickId, prompt_id |-> prompt_id,
                                  clicks |-> 0, expired |-> TRUE]]
    /\ UNCHANGED dbClicked
    /\ UNCHANGED promptFileVars
    /\ UNCHANGED nonPromptVars

(* PromptClick.increment, lines 21-26, on the object held by worker w: an  *)
(* expired object reloads clicks from its row, the commit writes           *)
(* clicks + 1 to the row, and the request ends                             *)
PromptClick_increment(w) ==
    /\ loadedClick[w] # NoClickRow
    /\ dbClicked[loadedClick[w].prompt_id] < MaxClicks
    /\ LET i == ClickRowOf(promptClicks, loadedClick[w].prompt_id)
           cur == IF loadedClick[w].expired THEN promptClicks[i].clicks
                  ELSE loadedClick[w].clicks
       IN  promptClicks' = [promptClicks EXCEPT ![i].clicks = cur + 1]
    /\ dbClicked' = [dbClicked EXCEPT ![loadedClick[w].prompt_id] = @ + 1]
    /\ loadedClick' = [loadedClick EXCEPT ![w] = NoClickRow]
    /\ UNCHANGED nextClickId
    /\ UNCHANGED promptFileVars
    /\ UNCHANGED nonPromptVars

----------------------------------------------------------------------------
(* Bias analysis: api/bias_analysis_api.py (registered in main.py) and     *)
(* api/bias_analytics_api.py                                               *)

(* the users table as the two handlers use it: id, _uid and role *)
UserTable ==
    {[id |-> 1, uid |-> "A", role |-> "User"],
     [id |-> 2, uid |-> "B", role |-> "User"],
     [id |-> 3, uid |-> "C", role |-> "Admin"]}

NoUser == [id |-> 0, uid |-> "", role |-> ""]

(* User.query.filter_by(_uid=uid).first() *)
UserByUid(uid) ==
    IF \E u \in UserTable : u.uid = uid
    THEN CHOOSE u \in UserTable : u.uid = uid
    ELSE NoUser

(* Performance.list_for_user_id(user.id) / Performance.query.filter_by(user_id=user.id) *)
list_for_user_id(rows, user_id) == SelectSeq(rows, LAMBDA p : p.user_id = user_id)

(* MediaScore.query.filter_by(username=...).all() *)
ScoresOf(rows, username) == SelectSeq(rows, LAMBDA sc : sc.username = username)

NoBiasResp ==
    [op |-> "none", caller |-> NoUser, uid |-> "", code |-> 0, read |-> FALSE,
     user |-> NoUser, performance_ratings |-> <<>>, media_game_scores |-> <<>>]

(* the security check of both handlers *)
PermissionDenied_admin(current_user, uid) ==
    current_user.role = "Admin" /\ current_user.uid # uid

PermissionDenied(current_user, uid) ==
    current_user.role # "Admin" /\ current_user.uid # uid

(* bias_analysis_api.analyze_bias, lines 14-97 and the answer; `ok` is     *)
(* false when building the answer raises into the outer handler            *)
analyze_bias(current_user, uid, ok) ==
    /\ LET target_user == UserByUid(uid)
           other == current_user.role = "Admin" /\ current_user.uid # uid
           usr == IF other THEN target_user ELSE current_user
           base == [NoBiasResp EXCEPT !.op = "analysis", !.caller = current_user, !.uid = uid]
       IN  biasResp' =
               IF PermissionDenied(current_user, uid) THEN [base EXCEPT !.code = 403]
               ELSE IF other /\ target_user = NoUser THEN [base EXCEPT !.code = 404]
               ELSE [base EXCEPT
                        !.code = IF ok THEN 200 ELSE 500,
                        !.read = TRUE,
                        !.user = usr,
                        !.performance_ratings = list_for_user_id(perfTable, usr.id),
                        !.media_game_scores = ScoresOf(scores, usr.uid)]
    /\ UNCHANGED nonBiasVars

(* bias_analytics_api.analyze_bias, lines 15-52 and the answer *)
analytics_analyze_bias(current_user, uid, ok) ==
    /\ LET usr == UserByUid(uid)
           base == [NoBiasResp EXCEPT !.op = "analytics", !.caller = current_user, !.uid = uid]
       IN  biasResp' =
               IF PermissionDenied(current_user, uid) THEN [base EXCEPT !.code = 403]
               ELSE IF usr = NoUser THEN [base EXCEPT !.code = 404]
               ELSE [base EXCEPT
                        !.code = IF ok THEN 200 ELSE 500,
                        !.read = TRUE,
                        !.user = usr,
                        !.performance_ratings = list_for_user_id(perfTable, usr.id),
                        !.media_game_scores = ScoresOf(scores, uid)]
    /\ UNCHANGED nonBiasVars

----------------------------------------------------------------------------
(* Name registration: MediaPerson and MediaPersonAPI.post in api/media_api.py *)

NoPerson == [id |-> 0, name |-> <<>>]
NoPersonCall == [pc |-> "idle", name |-> <<>>]
NoPersonResp == [code |-> 0, name |-> <<>>, person |-> NoPerson]

(* MediaPerson.query.filter_by(name=name).first() *)
PersonByName(rows, name) ==
    IF \E i \in 1..Len(rows) : rows[i].name = name
    THEN rows[CHOOSE i \in 1..Len(rows) : rows[i].name = name]
    ELSE NoPerson

(* lines 89-97: 400 for a missing body or name or a name shorter than two  *)
(* characters after strip(); a name without strip() raises, answered 500   *)
ValidatePerson(body) ==
    IF body.kind = "none" THEN [code |-> 400, name |-> <<>>]
    ELSE IF ~PyTruthy(body.name) THEN [code |-> 400, name |-> <<>>]
    ELSE IF body.name.t # "str" THEN [code |-> 500, name |-> <<>>]
    ELSE IF Len(Strip(body.name.s)) < 2 THEN [code |-> 400, name |-> <<>>]
    ELSE [code |-> 0, name |-> Strip(body.name.s)]

(* MediaPersonAPI.post, lines 85-102: validation and the query for an      *)
(* existing person                                                         *)
MediaPersonAPI_post(w, body) ==
    /\ personPc[w].pc = "idle"
    /\ LET v == ValidatePerson(body)
           existing_person == PersonByName(persons, v.name)
       IN  IF v.code # 0
           THEN /\ personResp' = [personResp EXCEPT ![w] = [NoPersonResp EXCEPT !.code = v.code]]
                /\ UNCHANGED personPc
           ELSE IF existing_person # NoPerson
           THEN /\ personResp' = [personResp EXCEPT ![w] =
                                     [code |-> 200, name |-> v.name, person |-> existing_person]]
                /\ UNCHANGED personPc
           ELSE /\ personPc' = [personPc EXCEPT ![w] = [pc |-> "create", name |-> v.name]]
                /\ personResp' = [personResp EXCEPT ![w] = NoPersonResp]
    /\ UNCHANGED <<persons, nextPersonId>>
    /\ UNCHANGED nonPersonVars

(* the unique constraint on media_persons.name (line 58) *)
UniqueViolation_off(rows, name) == FALSE

UniqueViolation(rows, name) == \E i \in 1..Len(rows) : rows[i].name = name

(* lines 104-110 with MediaPerson.create, lines 64-72: the commit raises    *)
(* when the name is already there or the database fails; create() rolls    *)
(* back and returns None                                                   *)
MediaPerson_create(w, commitOk) ==
    /\ personPc[w].pc = "create"
    /\ LET name == personPc[w].name
           done == commitOk /\ ~UniqueViolation(persons, name)
           person == [id |-> nextPersonId, name |-> name]
       IN  /\ persons' = IF done THEN Append(persons, person) ELSE persons
           /\ nextPersonId' = IF done THEN nextPersonId + 1 ELSE nextPersonId
           /\ personResp' = [personResp EXCEPT ![w] =
                                IF done THEN [code |-> 201, name |-> name, person |-> person]
                                ELSE [code |-> 500, name |-> name, person |-> NoPerson]]
    /\ personPc' = [personPc EXCEPT ![w] = NoPersonCall]
    /\ UNCHANGED nonPersonVars

----------------------------------------------------------------------------
(* Specifications *)

Init ==
    /\ perfFile = AbsentFile
    /\ lockEx = 0
    /\ lockSh = {}
    /\ pc = [w \in Workers |-> "idle"]
    /\ call = [w \in Workers |-> "none"]
    /\ req = [w \in Workers |-> NoBody]
    /\ rating = [w \in Workers |-> 0]
    /\ user = [w \in Workers |-> 0]
    /\ perfs = [w \in Workers |-> <<>>]
    /\ newPerf = [w \in Workers |-> NoPerf]
    /\ rdData = [w \in Workers |-> <<>>]
    /\ last = NoCall
    /\ returned = <<>>
    /\ clock = 0
    /\ nSubmits = 0
    /\ scores = <<>>
    /\ nextScoreId = 1
    /\ scoreResp = NoScoreResp
    /\ multiratings = <<>>
    /\ multiResp = NoMultiResp
    /\ perfTable = <<>>
    /\ nextPerfId = 1
    /\ adminResp = NoAdminResp
    /\ biasResp = NoBiasResp
    /\ nReads = 0
    /\ persons = <<>>
    /\ nextPersonId = 1
    /\ personPc = [w \in Workers |-> NoPersonCall]
    /\ personResp = [w \in Workers |-> NoPersonResp]
    /\ argId = [w \in Workers |-> NoId]
    /\ stats = [w \in Workers |-> NoStats]
    /\ raced = [w \in Workers |-> FALSE]
    /\ lastRaced = FALSE
    /\ lastGet = NoGet
    /\ prevGet = NoGet
    /\ readFrom = [w \in Workers |-> 0]
    /\ lastReadFrom = 0
    /\ promptsFile = AbsentPrompts
    /\ pLockEx = 0
    /\ pLockSh = {}
    /\ ppc = [w \in PromptWorkers |-> "idle"]
    /\ pcall = [w \in PromptWorkers |-> NoPromptCall]
    /\ prompts = [w \in PromptWorkers |-> <<>>]
    /\ pData = [w \in PromptWorkers |-> <<>>]
    /\ plast = NoPromptResp
    /\ clicked = [i \in ClickIds |-> 0]
    /\ promptNow = 0
    /\ nClicks = 0
    /\ promptClicks = <<>>
    /\ nextClickId = 1
    /\ loadedClick = [w \in PromptWorkers |-> NoClickRow]
    /\ dbClicked = [i \in DbPromptIds |-> 0]

(* the steps a worker takes inside a call *)
WorkerStep(w) ==
        \/ add_exists(w)
        \/ wf_open(w)
        \/ wf_lock(w)
        \/ wf_unlock(w)
        \/ wf_close(w)
        \/ add_lock(w)
        \/ add_read(w)
        \/ add_write(w)
        \/ add_unlock(w)
        \/ rd_open(w)
        \/ rd_lock(w)
        \/ rd_load(w)
        \/ rd_unlock(w)

(* one worker serving every kind of request, one after the other *)
NextRatings ==
    \/ \E data \in SubmitBodies, u \in Users : Submit_post(1, data, u)
    \/ initPerformances(1)
    \/ \E fn \in Readers : Reader(1, fn)
    \/ WorkerStep(1)

ConcBodies == {[kind |-> "dict", rating |-> r] : r \in {JInt(1), JInt(5), JInt(6)}}
ConcReaders == {"getPerformances"}

(* several workers serving requests at the same time *)
NextConc ==
    \E w \in Workers :
        \/ \E data \in ConcBodies, u \in Users : Submit_post(w, data, u)
        \/ initPerformances(w)
        \/ \E fn \in ConcReaders : Reader(w, fn)
        \/ WorkerStep(w)

NextMedia ==
    \/ \E r \in ScoreRequests, commitOk \in BOOLEAN :
          MediaScoreAPI_post(r.path, r.body, commitOk)
    \/ \E arg \in LimitArgs : MediaLeaderboardAPI_get(arg)

NextMulti ==
    \E u \in Users, qs \in MultiInputs : MultiRating_create(u, qs)

SpecRatings == Init /\ [][NextRatings]_vars
SpecConc == Init /\ [][NextConc]_vars
SpecMedia == Init /\ [][NextMedia]_vars
SpecMulti == Init /\ [][NextMulti]_vars

(* the seeding script and the admin endpoints for a rating *)
NextAdmin ==
    \/ \E r \in SeedRatings, u \in Users : Performance_create(r, u)
    \/ \E id \in PerfIds, data \in AdminBodies, commitOk \in BOOLEAN :
          PerformanceAPI_ReadID_put(id, data, commitOk)
    \/ \E id \in PerfIds, data \in AdminBodies, commitOk \in BOOLEAN :
          update_performance(id, data, commitOk)
    \/ \E id \in PerfIds, commitOk \in BOOLEAN : PerformanceAPI_ReadID_delete(id, commitOk)
    \/ \E id \in PerfIds, commitOk \in BOOLEAN : delete_performance(id, commitOk)

SpecAdmin == Init /\ [][NextAdmin]_vars

(* score submissions by path parameters and the admin endpoints for a      *)
(* game score                                                              *)
NextMediaAdmin ==
    \/ \E p \in ScorePaths, commitOk \in BOOLEAN :
          Len(scores) < MaxAdminScores /\ MediaScoreAPI_post(p, NoJson, commitOk)
    \/ \E id \in ScoreIds, body \in UpdateBodies, commitOk \in BOOLEAN :
          MediaScoreUpdateAPI_put(id, body, commitOk)
    \/ \E id \in ScoreIds, data \in UpdateBodies, commitOk \in BOOLEAN :
          update_media_score(id, data, commitOk)
    \/ \E id \in ScoreIds, commitOk \in BOOLEAN : MediaScoreDeleteAPI_delete(id, commitOk)
    \/ \E id \in ScoreIds, commitOk \in BOOLEAN : delete_media_score(id, commitOk)

SpecMediaAdmin == Init /\ [][NextMediaAdmin]_vars

(* ids a get request may name: those of the records and one beyond *)
GetIds == 0..MaxSubmits

(* one worker serving submits and get requests, one after the other *)
NextGet ==
    \/ \E data \in ConcBodies, u \in Users : Submit_post(1, data, u)
    \/ initPerformances(1)
    \/ \E id \in GetIds : ReadID_get(1, id)
    \/ WorkerStep(1)

SpecGet == Init /\ [][NextGet]_vars

(* worker 1 serving statistics requests while worker 2 serves submits *)
NextStats ==
    \/ ReadStats_get(1)
    \/ \E data \in ConcBodies, u \in Users : Submit_post(2, data, u)
    \/ initPerformances(2)
    \/ WorkerStep(1)
    \/ WorkerStep(2)

SpecStats == Init /\ [][NextStats]_vars

(* an admin request that sets the rating of row 1 to 5 *)
OverrideBodies == {[kind |-> "dict", keys |-> "rating", rating |-> JInt(5)]}
OverrideIds == {1}

(* submits by two users and the two list operations, one after the other *)
ListUsers == {1, 2}
ListBodies == {[kind |-> "dict", rating |-> r] : r \in {JInt(2), JInt(4)}}
NextLists ==
    \/ \E data \in ListBodies, u \in ListUsers : Submit_post(1, data, u)
    \/ Reader(1, "getPerformances")
    \/ \E u \in ListUsers : ReadUserPerformances_get(1, u)
    \/ WorkerStep(1)

SpecLists == Init /\ [][NextLists]_vars

(* the readers of the rating store and the leaderboard, next to submits of *)
(* ratings and of game scores, one request after the other                 *)
NextReadOnly ==
    \/ \E u \in Users : Submit_post(1, [kind |-> "dict", rating |-> JInt(2)], u)
    \/ \E fn \in Readers : Reader(1, fn)
    \/ \E id \in {0} : ReadID_get(1, id)
    \/ \E u \in Users : ReadUserPerformances_get(1, u)
    \/ WorkerStep(1)
    \/ /\ pc[1] = "idle"
       /\ \/ \E p \in ScorePaths, commitOk \in BOOLEAN : MediaScoreAPI_post(p, NoJson, commitOk)
          \/ MediaLeaderboardAPI_get(NoArg)

SpecReadOnly == Init /\ [][NextReadOnly]_vars

BiasUids == {"A", "B", "C", "Z"}

(* rating rows and game scores of several users, and bias analyses asked   *)
(* by every user for every uid                                             *)
NextBias ==
    \/ \E r \in {3, 5}, u \in {1, 2} : Performance_create(r, u)
    \/ \E p \in ScorePaths, commitOk \in BOOLEAN : MediaScoreAPI_post(p, NoJson, commitOk)
    \/ \E current_user \in UserTable, uid \in BiasUids, ok \in BOOLEAN :
          analyze_bias(current_user, uid, ok)
    \/ \E current_user \in UserTable, uid \in BiasUids, ok \in BOOLEAN :
          analytics_analyze_bias(current_user, uid, ok)

SpecBias == Init /\ [][NextBias]_vars

PersonBodies ==
    {[kind |-> "none", name |-> JNull], [kind |-> "dict", name |-> JNull],
     [kind |-> "dict", name |-> JInt(5)]}
    \cup {[kind |-> "dict", name |-> JStr(cs)] :
             cs \in {<<>>, <<"A">>, <<"A", "l">>, <<" ", "A", "l", " ">>, <<"B", "o">>}}

(* several workers registering names at the same time *)
NextPersons ==
    \E w \in Workers :
        \/ \E body \in PersonBodies : MediaPersonAPI_post(w, body)
        \/ \E commitOk \in BOOLEAN : MediaPerson_create(w, commitOk)

SpecPersons == Init /\ [][NextPersons]_vars

(* a worker process serves one request at a time *)
Free(w) == pc[w] = "idle" /\ ppc[w] = "idle"

(* the submits, clicks and stand-alone reads started so far *)
Started == nSubmits + nClicks + nReads

(* a bounded set of submits, clicks and reads on both file stores, served  *)
(* by two workers at the same time                                         *)
NextLive ==
    \E w \in PromptWorkers :
        \/ /\ Free(w)
           /\ Started < MaxLive
           /\ Submit_post(w, [kind |-> "dict", rating |-> JInt(5)], 1)
        \/ Free(w) /\ initPrompts(w)
        \/ Free(w) /\ Started < MaxLive /\ IncrementClick_post(w, 1)
        \/ /\ Free(w)
           /\ Started < MaxLive
           /\ nReads' = nReads + 1
           /\ \/ /\ Reader_call(w, "getPerformances")
                 /\ UNCHANGED <<mediaVars, multiVars, adminVars, promptVars, biasVars, personVars>>
              \/ /\ PromptReader_call(w, "getPrompts")
                 /\ UNCHANGED <<ratingVars, readVars, mediaVars, multiVars, adminVars, biasVars,
                                personVars>>
        \/ WorkerStep(w)
        \/ PromptStep(w)

(* every process that can take its next step is scheduled; a process       *)
(* waiting in flock() goes on once the lock stays free                     *)
FairLive == \A w \in PromptWorkers : WF_vars(WorkerStep(w)) /\ WF_vars(PromptStep(w))

SpecLive == Init /\ [][NextLive]_vars /\ FairLive

(* the prompt store with two workers: initialisation at start-up, clicks   *)
(* and reads                                                               *)
NextPrompts ==
    \/ \E w \in PromptWorkers : initPrompts(w)
    \/ \E w \in PromptWorkers, id \in ClickIds : IncrementClick_post(w, id)
    \/ \E w \in PromptWorkers, fn \in PromptReaders : PromptReader(w, fn)
    \/ \E w \in PromptWorkers, id \in ClickIds : PromptReadID_get(w, id)
    \/ \E w \in PromptWorkers : PromptStep(w)

SpecPrompts == Init /\ [][NextPrompts]_vars

(* the prompt store served by one worker, next to the table prompt_clicks *)
NextPromptDb ==
    \/ initPrompts(1)
    \/ \E id \in ClickIds : IncrementClick_post(1, id)
    \/ \E fn \in PromptReaders : PromptReader(1, fn)
    \/ \E id \in ClickIds : PromptReadID_get(1, id)
    \/ PromptStep(1)
    \/ init_prompt_clicks
    \/ \E prompt_id \in DbPromptIds : PromptClick_get_or_create(1, prompt_id)
    \/ PromptClick_increment(1)

SpecPromptDb == Init /\ [][NextPromptDb]_vars

(* submits, get and count requests, the seeding script and the admin       *)
(* endpoints, served one after the other                                   *)
NextOverride ==
    \/ \E data \in ConcBodies, u \in Users : Submit_post(1, data, u)
    \/ \E id \in GetIds : ReadID_get(1, id)
    \/ Reader(1, "countPerformances")
    \/ WorkerStep(1)
    \/ /\ pc[1] = "idle"
       /\ \/ \E u \in Users : Performance_create(2, u)
          \/ \E id \in OverrideIds, data \in OverrideBodies, commitOk \in BOOLEAN :
                PerformanceAPI_ReadID_put(id, data, commitOk)
          \/ \E id \in OverrideIds, data \in OverrideBodies, commitOk \in BOOLEAN :
                update_performance(id, data, commitOk)
          \/ \E id \in OverrideIds, commitOk \in BOOLEAN :
                PerformanceAPI_ReadID_delete(id, commitOk)
          \/ \E id \in OverrideIds, commitOk \in BOOLEAN :
                delete_performance(id, commitOk)

SpecOverride == Init /\ [][NextOverride]_vars

----------------------------------------------------------------------------
(* Properties *)

Stored == ParseFile(perfFile)
Quiescent == \A w \in Workers : pc[w] = "idle"
Abs(x) == IF x < 0 THEN 0 - x ELSE x
RatingsOf(ps) == [i \in 1..Len(ps) |-> ps[i].rating]
CountOf(ps, k) == Cardinality({i \in 1..Len(ps) : ps[i].rating = k})

(* a submitted rating that is missing, not a number, or a number outside   *)
(* the closed range 1..5                                                   *)
RatingUnacceptable(body) ==
    \/ body.kind = "none"
    \/ /\ body.kind = "dict"
       /\ \/ body.rating.t \in {"null", "list"}
          \/ body.rating.t = "int" /\ (body.rating.n < 1 \/ body.rating.n > 5)
          \/ body.rating.t = "float" /\ (body.rating.n < 10 \/ body.rating.n > 50)
          \/ body.rating.t = "str" /\ (~StrToInt(body.rating.s).ok
                                         \/ StrToInt(body.rating.s).v < 1
                                         \/ StrToInt(body.rating.s).v > 5)

(* C1: every stored record has an integer rating in 1..5, and a submit     *)
(* whose rating is missing, non-numeric or outside 1..5 is answered with   *)
(* 400 and adds no record.                                                 *)
C1_RatingRange ==
    /\ \A i \in 1..Len(Stored) : Stored[i].rating \in 1..5
    /\ (last.call = "submit" /\ RatingUnacceptable(last.req))
          => (last.code = 400 /\ ~last.added)

(* C2: once N concurrent addPerformance calls have all returned, the store *)
(* holds exactly the N returned records, and their ids are pairwise        *)
(* distinct (the file may be missing when the calls start).                *)
C2_NoLostUpdate ==
    Quiescent =>
        /\ Len(Stored) = Len(returned)
        /\ \A i, j \in 1..Len(returned) : i # j => returned[i].id # returned[j].id
        /\ \A i \in 1..Len(returned) : \E j \in 1..Len(Stored) : Stored[j] = returned[i]

(* C3: the leaderboard holds at most one entry per username. *)
C3_OneEntryPerUser ==
    scoreResp.op = "leaderboard" =>
        \A i, j \in 1..Len(scoreResp.board) :
            i # j => scoreResp.board[i].username # scoreResp.board[j].username

NameTimes(rows) == [i \in 1..Len(rows) |-> <<rows[i].username, rows[i].time>>]

(* C4: each leaderboard entry carries the minimum time of its username,    *)
(* entries are in non-decreasing order of time, ranks are 1, 2, ..., n in  *)
(* list order; scores (A,50),(A,30),(B,40) give A/30/rank 1, B/40/rank 2.  *)
C4_Ranking ==
    scoreResp.op = "leaderboard" =>
        LET b == scoreResp.board
        IN  /\ \A k \in 1..Len(b) :
                  /\ b[k].rank = k
                  /\ \E i \in 1..Len(scores) :
                        scores[i].username = b[k].username /\ scores[i].time = b[k].time
                  /\ \A i \in 1..Len(scores) :
                        scores[i].username = b[k].username => b[k].time <= scores[i].time
                  /\ k < Len(b) => b[k].time <= b[k + 1].time
            /\ (NameTimes(scores) = <<<<"A", 50>>, <<"A", 30>>, <<"B", 40>>>> /\ scoreResp.limit >= 2)
                  => /\ Len(b) = 2
                     /\ <<b[1].username, b[1].time, b[1].rank>> = <<"A", 30, 1>>
                     /\ <<b[2].username, b[2].time, b[2].rank>> = <<"B", 40, 2>>

C4_Witness ==
    /\ scoreResp.op = "leaderboard"
    /\ NameTimes(scores) = <<<<"A", 50>>, <<"A", 30>>, <<"B", 40>>>>
    /\ Len(scoreResp.board) = 2
    /\ scoreResp.board[1].time = 30

(* C5: getAverageRating returns 3.0 for an empty or missing store, and     *)
(* otherwise the mean of the ratings rounded to one decimal place: within  *)
(* half a tenth of the mean and between 1.0 and 5.0; [1,5] gives 3.0 and   *)
(* [4,5] gives 4.5.                                                        *)
C5_Average ==
    last.call = "getAverageRating" =>
        LET n == Len(last.data)
            total == SumRatings(last.data)
        IN  /\ n = 0 => last.val = 30
            /\ n > 0 => /\ 2 * Abs(10 * total - n * last.val) <= n
                        /\ 10 <= last.val /\ last.val <= 50
            /\ RatingsOf(last.data) = <<1, 5>> => last.val = 30
            /\ RatingsOf(last.data) = <<4, 5>> => last.val = 45

C5_Witness ==
    /\ last.call = "getAverageRating"
    /\ RatingsOf(last.data) = <<4, 5>>
    /\ last.val = 45

(* C6: in every state of the store getRatingDistribution has exactly the   *)
(* keys 1..5 and its values sum to countPerformances() of the same state;  *)
(* so does every distribution a call has returned, for the list it read.   *)
C6_Distribution ==
    /\ LET d == getRatingDistribution(Stored)
       IN  /\ DOMAIN d = {1, 2, 3, 4, 5}
           /\ d[1] + d[2] + d[3] + d[4] + d[5] = countPerformances(Stored)
    /\ last.call = "getRatingDistribution" =>
          /\ DOMAIN last.val = {1, 2, 3, 4, 5}
          /\ last.val[1] + last.val[2] + last.val[3] + last.val[4] + last.val[5]
                = Len(last.data)

C6_Witness ==
    /\ last.call = "getRatingDistribution"
    /\ Len(last.data) = 3
    /\ last.val[2] = 1 /\ last.val[5] = 2

(* C7: for a non-empty population getMostCommonRating returns a rating of  *)
(* maximal count, the lowest one among those that share the maximum;       *)
(* one 3 and one 4 give 3.                                                 *)
C7_MostCommon ==
    (last.call = "getMostCommonRating" /\ last.data # <<>>) =>
        /\ last.val \in 1..5
        /\ \A k \in 1..5 : CountOf(last.data, k) <= CountOf(last.data, last.val)
        /\ \A k \in 1..5 : k < last.val => CountOf(last.data, k) < CountOf(last.data, last.val)
        /\ (Len(last.data) = 2 /\ CountOf(last.data, 3) = 1 /\ CountOf(last.data, 4) = 1)
              => last.val = 3

C7_Witness ==
    /\ last.call = "getMostCommonRating"
    /\ Len(last.data) = 2
    /\ CountOf(last.data, 3) = 1 /\ CountOf(last.data, 4) = 1
    /\ last.val = 3

(* an answer outside 1..5: a number out of range, or not a number *)
AnswerOutOfRange(q) == ~PyInt(q).ok \/ PyInt(q).v < 1 \/ PyInt(q).v > 5

(* C8: creating a MultiRating with an answer outside 1..5 fails with a     *)
(* validation error that names the first offending field, and stores       *)
(* nothing.                                                                *)
C8_MultiValidation ==
    (multiResp.done /\ \E i \in 1..5 : AnswerOutOfRange(multiResp.qs[i])) =>
        LET first == CHOOSE i \in 1..5 :
                        /\ AnswerOutOfRange(multiResp.qs[i])
                        /\ \A j \in 1..(i - 1) : ~AnswerOutOfRange(multiResp.qs[j])
        IN  /\ ~multiResp.ok
            /\ multiResp.field = QNames[first]
            /\ \A r \in 1..Len(multiratings) : \A i \in 1..5 : multiratings[r].q[i] \in 1..5

(* the elapsed time of a request is not a positive integer *)
TimeUnacceptable(t) ==
    \/ t.t \in {"null", "list"}
    \/ t.t = "int" /\ t.n <= 0
    \/ t.t = "float" /\ (t.n <= 0 \/ t.n % 10 # 0)
    \/ t.t = "str" /\ (~StrToInt(t.s).ok \/ StrToInt(t.s).v <= 0)

(* C9: MediaScoreAPI.post stores a score only when the elapsed time is a   *)
(* positive integer; a request whose time is zero, negative, missing or    *)
(* not an integer is answered with 400 and stores nothing (the database    *)
(* working).                                                               *)
C9_ScoreValidation ==
    /\ \A i \in 1..Len(scores) : scores[i].time > 0
    /\ (scoreResp.op = "post" /\ ~scoreResp.dbError) =>
          LET t == IF scoreResp.path.given THEN JInt(scoreResp.path.time) ELSE scoreResp.time
          IN  TimeUnacceptable(t) => (scoreResp.code = 400 /\ ~scoreResp.stored)

(* C10: every step that changes the content of an existing document is     *)
(* taken while the exclusive lock is held, and every load of the document  *)
(* is taken under a lock and never sees a truncated or partly overwritten  *)
(* document.                                                               *)
C10_LockDiscipline ==
    [][/\ (Exists(perfFile) /\ perfFile' # perfFile) => (lockEx # 0 /\ lockEx' = lockEx)
       /\ \A w \in Workers :
             (pc[w] = "rd_load" /\ pc'[w] = "rd_unlock")
                => (w \in lockSh /\ perfFile.kind = "json")]_vars

(* a numeric rating outside the closed range 1..5 *)
NumberOutOfRange(r) ==
    \/ r.t = "int" /\ (r.n < 1 \/ r.n > 5)
    \/ r.t = "float" /\ (r.n < 10 \/ r.n > 50)

(* C11: in both admin update paths an update of an existing rating with a  *)
(* value outside 1..5 is answered with 400 and the table is unchanged; an  *)
(* update (with a non-empty body) or a delete of an id that does not exist *)
(* is answered with 404 and the table is unchanged. A request whose commit *)
(* fails is left aside.                                                    *)
C11_AdminRevalidation ==
    /\ (/\ adminResp.op \in {"put", "update_performance"}
        /\ adminResp.existed
        /\ ~adminResp.dbError
        /\ adminResp.body.keys = "rating"
        /\ NumberOutOfRange(adminResp.body.rating))
          => (adminResp.code = 400 /\ perfTable = adminResp.before)
    /\ (/\ adminResp.op \in {"put", "update_performance", "delete", "delete_performance"}
        /\ ~adminResp.existed
        /\ (adminResp.op \in {"put", "update_performance"} => adminResp.body.keys # "none"))
          => (adminResp.code = 404 /\ perfTable = adminResp.before)

(* the distinct usernames among the stored scores *)
Usernames(rows) == {rows[i].username : i \in 1..Len(rows)}

(* C14: the leaderboard endpoint answers 200; with no stored scores the    *)
(* list is empty, otherwise it has exactly min(limit, number of distinct   *)
(* usernames) entries.                                                     *)
C14_LeaderboardSize ==
    scoreResp.op = "leaderboard" =>
        /\ scoreResp.code = 200
        /\ scores = <<>> => scoreResp.board = <<>>
        /\ Len(scoreResp.board) =
              (IF scoreResp.limit < Cardinality(Usernames(scores))
               THEN scoreResp.limit ELSE Cardinality(Usernames(scores)))

(* C18: under submissions, admin updates and admin deletes every stored    *)
(* game score has an integer time between 1 and 3600.                      *)
C18_ScoreTimeInvariant ==
    \A i \in 1..Len(scores) : scores[i].time \in 1..3600

(* C15: on an empty store, or with the file missing, every aggregator      *)
(* returns its default without an error: count 0, average 3.0, the         *)
(* all-zero mapping over 1..5, most common rating 3.                       *)
C15_EmptyDefaults ==
    (last.call \in Readers /\ last.data = <<>>) =>
        /\ last.code = 200
        /\ last.call = "countPerformances" => last.val = 0
        /\ last.call = "getAverageRating" => last.val = 30
        /\ last.call = "getRatingDistribution" => last.val = [k \in 1..5 |-> 0]
        /\ last.call = "getMostCommonRating" => last.val = 3

C15_Witness ==
    /\ last.call = "getAverageRating"
    /\ last.data = <<>>
    /\ ~Exists(perfFile)
    /\ last.val = 30

(* C16: two getPerformance(id) calls for the same id with no write to the  *)
(* store between them return the same result: the same record both times,  *)
(* or not-found both times.                                                *)
C16_IdempotentGet ==
    (lastGet.valid /\ prevGet.valid /\ lastGet.id = prevGet.id) =>
        (lastGet.code = prevGet.code /\ lastGet.val = prevGet.val)

C16_Witness ==
    /\ lastGet.valid /\ prevGet.valid
    /\ lastGet.id = 1 /\ prevGet.id = 1
    /\ lastGet.code = 200
    /\ lastGet.val.id = 1

(* C19: the record at list position i has id i, so no two stored records   *)
(* share an id, and no id is handed out to two different records.          *)
C19_UniqueIds ==
    /\ \A i \in 1..Len(Stored) : Stored[i].id = i - 1
    /\ \A i, j \in 1..Len(returned) : i # j => returned[i].id # returned[j].id

(* C20: the statistics response is assembled from four separate reads; its *)
(* count differs from the sum of its distribution only when a write        *)
(* reached the store while the request was being served.                   *)
C20_NoSnapshot ==
    (last.call = "stats" /\ last.val.count # SumDist(last.val.distribution, RatingKeys))
        => lastRaced

C20_Witness ==
    /\ last.call = "stats"
    /\ last.val.count # SumDist(last.val.distribution, RatingKeys)
    /\ returned # <<>>

(* the submit endpoint has created a record with this id *)
SubmittedId(id) == \E k \in 1..Len(returned) : returned[k].id = id

(* C17: for a record created through the submit endpoint with id i, a get  *)
(* of i that follows a successful admin update of i to v returns rating v, *)
(* and a get of i that follows a successful admin delete of i returns      *)
(* not-found.                                                              *)
C17_OverrideVisible ==
    (lastGet.valid /\ lastGet.id = adminResp.id /\ SubmittedId(adminResp.id)
        /\ adminResp.code = 200) =>
        /\ (adminResp.op \in {"put", "update_performance"} /\ adminResp.body.keys = "rating")
              => (lastGet.code = 200
                    /\ lastGet.val.rating = PyInt(adminResp.body.rating).v)
        /\ adminResp.op \in {"delete", "delete_performance"} => lastGet.code = 404

(* C12: once a prompt store is initialised its set of prompt identifiers   *)
(* is exactly 1..5, whatever clicks, reads and lookups follow: the         *)
(* prompts in a parsable prompts.json, and the prompt_id of the rows of    *)
(* prompt_clicks once init_prompt_clicks has run.                          *)
PromptIdsOf(ps) == {ps[i].id : i \in 1..Len(ps)}
ClickRowIds(table) == {table[i].prompt_id : i \in 1..Len(table)}
C12_PromptSetFixed ==
    /\ promptsFile.kind = "json" => PromptIdsOf(promptsFile.data) = 1..5
    /\ (1..5) \subseteq ClickRowIds(promptClicks) => ClickRowIds(promptClicks) = 1..5

(* C13: when no request on the prompt store is in progress, the clicks of  *)
(* every prompt in prompts.json equal the number of increments that        *)
(* increment_prompt_click has written for it: no increment is lost and no  *)
(* counter goes down.                                                      *)
PromptQuiet == \A w \in PromptWorkers : ppc[w] = "idle"
C13_ClickCounters ==
    (PromptQuiet /\ promptsFile.kind = "json") =>
        \A id \in PromptIdsOf(promptsFile.data) :
            getPrompt(promptsFile.data, id).clicks =
                IF id \in ClickIds THEN clicked[id] ELSE 0

(* C23: in every parsable prompts.json each prompt's trending_score equals *)
(* its clicks, and a step of a read (_read_prompts_file, on behalf of      *)
(* getPrompts, getPrompt, getPromptClicks or countPrompts) leaves the      *)
(* file, hence trending_score and last_clicked, as it was.                 *)
ReadStep(w) ==
    /\ ppc[w] \in {"pr_open", "pr_lock", "pr_load", "pr_unlock"}
    /\ ppc'[w] # ppc[w]
C23_TrendingScore ==
    /\ [](\A i \in 1..Len(promptsFile.data) :
            promptsFile.data[i].trending_score = promptsFile.data[i].clicks)
    /\ [][(\E w \in PromptWorkers : ReadStep(w)) => promptsFile' = promptsFile]_vars
C23_Witness ==
    /\ plast.op \in PromptReaders
    /\ promptsFile.kind = "json"
    /\ plast.data = promptsFile.data
    /\ \E i \in 1..Len(promptsFile.data) :
          /\ promptsFile.data[i].clicks = 2
          /\ promptsFile.data[i].trending_score = 2
          /\ promptsFile.data[i].last_clicked # NoTime

(* C24: a click on an id that no prompt has is answered 404 with no        *)
(* prompt, and the write-back of that click leaves every prompt record in  *)
(* prompts.json as it was.                                                 *)
UnknownId(id) == id \notin 1..Len(prompt_list)
C24_UnknownClick ==
    /\ []((plast.op = "click" /\ UnknownId(plast.id)) =>
            (plast.code = 404 /\ plast.val = NoPrompt))
    /\ [][\A w \in PromptWorkers :
            (ppc[w] = "pi_write" /\ ppc'[w] = "pi_unlock" /\ UnknownId(pcall[w].id)
                /\ promptsFile.kind = "json")
            => promptsFile'.data = promptsFile.data]_vars

(* C28: the response of an accepted submit carries the average of the      *)
(* list read after the new rating was stored (the store itself, until the  *)
(* next request begins), and its status is 'underprepared'                 *)
(* exactly when the rating is below that average, 'overprepared' exactly   *)
(* when above and 'average' exactly when equal; with one submit at a time  *)
(* the first submission into an empty store gets 'average'.                *)
C28_SubmitStatus ==
    (last.call = "submit" /\ last.code = 200) =>
        /\ Quiescent => last.data = Stored
        /\ last.val.average_rating = getAverageRating(last.data)
        /\ last.val.status = "underprepared"
              <=> 10 * last.val.your_rating < last.val.average_rating
        /\ last.val.status = "overprepared"
              <=> 10 * last.val.your_rating > last.val.average_rating
        /\ last.val.status = "average"
              <=> 10 * last.val.your_rating = last.val.average_rating
        /\ last.val.performance_id = 0 => last.val.status = "average"
C28_Witness ==
    /\ last.call = "submit"
    /\ last.code = 200
    /\ last.val.performance_id = 0
    /\ last.val.your_rating = 5
    /\ last.val.status = "average"

(* C21: a read of the rating list that began after addPerformance calls    *)
(* had returned observes the records those calls returned, whatever other  *)
(* submits and reads run at the same time.                                 *)
C21_ReadAfterWrite ==
    last.call \in Readers =>
        \A k \in 1..lastReadFrom : \E j \in 1..Len(last.data) : last.data[j] = returned[k]

(* C22: getPerformances and getUserPerformances return the ratings newest  *)
(* first, and getUserPerformances(user_id) returns exactly the stored      *)
(* ratings of that user.                                                   *)
NewestFirst(ps) == \A i, j \in 1..Len(ps) : i < j => ps[i].timestamp > ps[j].timestamp
C22_ListOrdering ==
    /\ last.call = "getPerformances" => NewestFirst(last.val)
    /\ last.call = "getUserPerformances" =>
          /\ NewestFirst(last.val.performances)
          /\ \A p \in {last.data[i] : i \in 1..Len(last.data)} :
                p.user_id = last.val.user_id
                    <=> \E j \in 1..Len(last.val.performances) : last.val.performances[j] = p

(* C25: a step of a reader of the rating store (countPerformances,         *)
(* getAverageRating, getRatingDistribution, getMostCommonRating,           *)
(* getPerformances, getPerformance, getUserPerformances) or of the         *)
(* leaderboard leaves performances.json, the table performances and the    *)
(* game scores unchanged; the stored ratings change only in a step of a    *)
(* submit and the game scores only in a score post.                        *)
RatingReadStep ==
    \E w \in Workers :
        /\ pc[w] \in {"rd_open", "rd_lock", "rd_load", "rd_unlock"}
        /\ pc'[w] # pc[w]
LeaderboardStep == scoreResp'.op = "leaderboard" /\ scoreResp' # scoreResp
SubmitStep == \E w \in Workers : call[w] = "submit" /\ pc'[w] # pc[w]
ReadersFrame ==
    (RatingReadStep \/ LeaderboardStep) =>
        (perfFile' = perfFile /\ perfTable' = perfTable /\ scores' = scores)
C25_ReadOnly ==
    /\ [][ReadersFrame]_vars
    /\ [][Stored' # Stored => SubmitStep]_vars
    /\ [][scores' # scores => scoreResp'.op = "post"]_vars

(* C26: a score post whose commit fails is answered 500 and leaves the     *)
(* game scores as they were; an addPerformance in which json.loads raises  *)
(* on the document it read ends there, answered with a 500-class error,    *)
(* and leaves performances.json as it was.                                 *)
ParseRaises(f) == f.kind = "corrupt"
CommitFailed == scoreResp'.op = "post" /\ scoreResp'.dbError
ScoreAllOrNothing == CommitFailed => (scoreResp'.code = 500 /\ scores' = scores)
AddAllOrNothing ==
    \A w \in Workers :
        (pc[w] = "add_read" /\ pc'[w] # pc[w] /\ ParseRaises(perfFile)) =>
            /\ pc'[w] = "idle"
            /\ last'.call = "submit" /\ last'.w = w /\ last'.code >= 500
            /\ perfFile' = perfFile
C26_AllOrNothing == [][ScoreAllOrNothing]_vars /\ [][AddAllOrNothing]_vars

(* C27: analyze_bias answers 403 and reads no rating and no game score     *)
(* when the caller is not an Admin and the requested uid is not the        *)
(* caller's own; it reads only when the caller is the owner or an Admin,   *)
(* and then only ratings and game scores of the requested uid.             *)
OwnerOrAdmin(r) == r.caller.uid = r.uid \/ r.caller.role = "Admin"
C27_OwnerOrAdmin ==
    biasResp.op # "none" =>
        /\ ~OwnerOrAdmin(biasResp) =>
                /\ biasResp.code = 403
                /\ ~biasResp.read
                /\ biasResp.performance_ratings = <<>>
                /\ biasResp.media_game_scores = <<>>
        /\ biasResp.read =>
                /\ OwnerOrAdmin(biasResp)
                /\ biasResp.user.uid = biasResp.uid
                /\ \A i \in 1..Len(biasResp.performance_ratings) :
                       biasResp.performance_ratings[i].user_id = UserByUid(biasResp.uid).id
                /\ \A i \in 1..Len(biasResp.media_game_scores) :
                       biasResp.media_game_scores[i].username = biasResp.uid
C27_Witness ==
    /\ biasResp.op = "analysis"
    /\ biasResp.caller.role = "Admin"
    /\ biasResp.uid = "B"
    /\ biasResp.code = 200
    /\ Len(biasResp.performance_ratings) = 1
    /\ Len(biasResp.media_game_scores) = 1
    /\ Len(perfTable) = 2
    /\ Len(scores) = 2

(* C29: no two MediaPerson records have the same name; a registration of   *)
(* a name that exists is answered 200 with the existing record and creates *)
(* nothing; of the requests that register the same new name at the same    *)
(* time one creates the record and is answered 201 with it, the others are *)
(* answered 200 with that record or 500, and no second record appears.     *)
UniqueNames == \A i, j \in 1..Len(persons) : i # j => persons[i].name # persons[j].name
PersonAnswers ==
    \A w \in Workers :
        /\ personResp[w].code \in {0, 200, 201, 400, 500}
        /\ personResp[w].code \in {200, 201} =>
               /\ personResp[w].person = PersonByName(persons, personResp[w].name)
               /\ personResp[w].person # NoPerson
        /\ \A v \in Workers :
               (v # w /\ personResp[v].code = 201 /\ personResp[w].code = 201) =>
                   personResp[v].name # personResp[w].name
ExistingNameStep ==
    \A w \in Workers :
        (personPc[w].pc = "idle" /\ personResp'[w] # personResp[w]
            /\ personResp'[w].name # <<>>
            /\ PersonByName(persons, personResp'[w].name) # NoPerson) =>
                /\ personResp'[w].code = 200
                /\ personResp'[w].person = PersonByName(persons, personResp'[w].name)
                /\ persons' = persons
C29_NameRegistration ==
    /\ [](UniqueNames /\ PersonAnswers)
    /\ [][ExistingNameStep]_vars
    /\ [][Len(persons') <= Len(persons) + 1]_vars
C29_Witness ==
    /\ Len(persons) = 2
    /\ personResp[1] = [code |-> 201, name |-> <<"A", "l">>, person |-> persons[2]]
    /\ personResp[2] = [code |-> 500, name |-> <<"A", "l">>, person |-> NoPerson]

(* C30: a worker holds at most one lock at a time and none when its        *)
(* operation has ended, whether it returned or raised; every started       *)
(* submit, click and read eventually completes.                            *)
HoldsPerfLock(w) == lockEx = w \/ w \in lockSh
HoldsPromptLock(w) == pLockEx = w \/ w \in pLockSh
LockRelease ==
    \A w \in PromptWorkers :
        /\ ~(HoldsPerfLock(w) /\ HoldsPromptLock(w))
        /\ ~(lockEx = w /\ w \in lockSh)
        /\ ~(pLockEx = w /\ w \in pLockSh)
        /\ pc[w] = "idle" => ~HoldsPerfLock(w)
        /\ ppc[w] = "idle" => ~HoldsPromptLock(w)
C30_LockProgress ==
    /\ []LockRelease
    /\ \A w \in PromptWorkers :
          /\ (pc[w] # "idle") ~> (pc[w] = "idle")
          /\ (ppc[w] # "idle") ~> (ppc[w] = "idle")
C30_Witness ==
    /\ pc[1] = "add_lock"
    /\ call[1] = "submit"
    /\ 2 \in lockSh
    /\ call[2] = "getPerformances"
    /\ Started = 2

====
